---- MODULE Spec2Model ----
(***************************************************************************)
(* Model of the sona audio engine (crates/audio/src/lib.rs) and of the     *)
(* desktop commands that drive it (src-tauri/src/commands.rs).             *)
(*                                                                         *)
(* The specifications of the module, each on its own part of the state:   *)
(*   SpecPick     - the pure format picker pick_best_format                *)
(*   Spec         - the control-plane state machine of AudioEngine         *)
(*   SpecSettings - the engine built at startup from the stored settings   *)
(*   SpecChain    - the plugin registry and the capture callback           *)
(*   SpecBlock    - one capture block on any registry and any buffers      *)
(*   SpecRegistry - the commands on the plugin registry alone              *)
(*   SpecRing     - the ring between the capture and playback callbacks    *)
(*   SpecRingLive - the same with each callback running to its end         *)
(*   SpecModule   - the loader of a plug-in's shared library               *)
(*   SpecArray    - the planar buffer Sync2DArray and its clones           *)
(*   SpecLock     - the registry's lock between the capture thread and     *)
(*                  the commands                                           *)
(*   SpecLockLive - the same with running threads and fair locks           *)
(*   SpecEditor   - the registry commands and the editor windows           *)
(* Option<T> values are sequences: <<>> is None and <<x>> is Some(x).      *)
(***************************************************************************)
EXTENDS Integers, Sequences, FiniteSets, TLC

VARIABLES
    \* ---- format picker (SpecPick)
    pk_pc,          \* "input" before the call, "done" after it
    pk_configs,     \* the candidate list handed to pick_best_format
    pk_prefs,       \* the four preferences
    pk_result,      \* Option<SupportedStreamConfig> returned
    \* ---- control plane (Spec)
    engine,         \* the AudioEngine behind the host's mutex
    poisoned,       \* a call panicked while holding the mutex
    last_op,        \* the latest call made on the engine and how it returned
    \* ---- plugin registry and capture callback (SpecChain)
    plugin_modules, \* PluginId -> loaded plug-in
    next_plugin_id, \* the id the next successful load is given
    load_order,     \* the live ids in the order of their loading
    bucket_order,   \* the order in which the registry's hash map is iterated
    input_data,     \* planar buffer the capture block is written to
    output_data,    \* planar buffer the plug-ins write to
    resampled_data, \* planar buffer the resampler writes to
    stream,         \* channels and num_samples of the running streams
    last_block,     \* what the capture callback just run did
    last_reg,       \* the registry call just made and what it returned
    issued,         \* the PluginIds load_plugin has returned, in order
    \* ---- ring between the callbacks (SpecRing)
    ring,           \* the HeapRb shared by producer and consumer
    cap_pending,    \* pushes left in the running capture callback
    play_left,      \* slots left in the running playback callback
    captures,       \* capture callbacks begun
    accepted,       \* pushes the ring took, in order
    rejected,       \* pushes the ring refused
    full_on_reject, \* every refused push found the ring at capacity
    delivered,      \* values popped, in order
    played,         \* Option: what the playback callback wrote to its latest slot
    \* ---- module loader (SpecModule)
    loader,         \* the library on disk, the Module made of it, the calls made
    \* ---- planar buffer (SpecArray)
    arrays,         \* the allocations and the handles of a Sync2DArray
    \* ---- registry lock (SpecLock)
    sync,           \* the lock, the two threads and the plug-in contexts
    \* ---- editor windows (SpecEditor)
    editors         \* the open editor windows and the latest call made on a view

pickVars == <<pk_pc, pk_configs, pk_prefs, pk_result>>
engineVars == <<engine, poisoned, last_op>>

chainVars == <<plugin_modules, next_plugin_id, load_order, bucket_order, input_data,
               output_data, resampled_data, stream, last_block, last_reg, issued>>
ringVars == <<ring, cap_pending, play_left, captures, accepted, rejected, full_on_reject,
              delivered, played>>

auxVars == <<loader, arrays, sync, editors>>

vars == <<pickVars, engineVars, chainVars, ringVars, auxVars>>

None == <<>>
Some(x) == <<x>>
IsSome(o) == Len(o) = 1
Unwrap(o) == o[1]

(***************************************************************************)
(* pick_best_format                                                        *)
(***************************************************************************)

\* cpal::SampleFormat values; F64 stands for the formats the picker skips.
RankedFormats == {"I8", "U8", "I16", "U16", "I32", "U32", "F32"}
SampleFormats == RankedFormats \cup {"F64"}

\* lib.rs 113-122: 0 stands for the `_ => continue` arm.
FormatScore(fmt) ==
    CASE fmt = "I32" -> 7
      [] fmt = "F32" -> 6
      [] fmt = "U32" -> 5
      [] fmt = "I16" -> 4
      [] fmt = "U16" -> 3
      [] fmt = "I8"  -> 2
      [] fmt = "U8"  -> 1
      [] OTHER       -> 0

\* lib.rs 125-133
SampleRateMatch(config, prefs) ==
    IF IsSome(prefs.sample_rate)
    THEN IF config.min_sample_rate <= Unwrap(prefs.sample_rate)
            /\ Unwrap(prefs.sample_rate) <= config.max_sample_rate
         THEN 1 ELSE 0
    ELSE 1

\* lib.rs 136-149
BufferSizeMatch(config, prefs) ==
    IF IsSome(prefs.buffer_size)
    THEN IF config.buffer_size.kind = "Range"
         THEN IF config.buffer_size.min <= Unwrap(prefs.buffer_size)
                 /\ Unwrap(prefs.buffer_size) <= config.buffer_size.max
              THEN 1 ELSE 0
         ELSE 1
    ELSE 1

\* A plausible slip: a boost too small to outweigh the ranking.
FormatMatchScoreSmallBoost(config, prefs) ==
    IF IsSome(prefs.sample_format)
    THEN IF config.sample_format = Unwrap(prefs.sample_format)
         THEN FormatScore(config.sample_format) + 1
         ELSE FormatScore(config.sample_format)
    ELSE FormatScore(config.sample_format)

\* lib.rs 152-160
FormatMatchScore(config, prefs) ==
    IF IsSome(prefs.sample_format)
    THEN IF config.sample_format = Unwrap(prefs.sample_format)
         THEN FormatScore(config.sample_format) + 100
         ELSE FormatScore(config.sample_format)
    ELSE FormatScore(config.sample_format)

\* lib.rs 163-171
ChannelMatchScore(config, prefs) ==
    IF IsSome(prefs.channels)
    THEN IF config.channels = Unwrap(prefs.channels) THEN 1 ELSE 0
    ELSE 1

\* A plausible slip: the format score placed ahead of the sample-rate match.
CurrentScoreFormatFirst(config, prefs) ==
    << FormatMatchScore(config, prefs), SampleRateMatch(config, prefs),
       BufferSizeMatch(config, prefs), ChannelMatchScore(config, prefs) >>

\* lib.rs 173
CurrentScore(config, prefs) ==
    << SampleRateMatch(config, prefs), BufferSizeMatch(config, prefs),
       FormatMatchScore(config, prefs), ChannelMatchScore(config, prefs) >>

\* A plausible slip: >= for >, which lets a later equal candidate win.
TupleGE(a, b) ==
    \/ a = b
    \/ \E k \in 1..4 : a[k] > b[k] /\ \A m \in 1..(k - 1) : a[m] = b[m]

\* Rust's tuple ordering: lexicographic, strict.
TupleGT(a, b) ==
    \E k \in 1..4 : a[k] > b[k] /\ \A m \in 1..(k - 1) : a[m] = b[m]

\* A plausible slip: the candidate always instantiated at its maximum rate.
SelectedConfigMaxRate(config, prefs) ==
    [ channels      |-> config.channels,
      sample_rate   |-> config.max_sample_rate,
      buffer_size   |-> config.buffer_size,
      sample_format |-> config.sample_format ]

\* lib.rs 180-188: with_sample_rate / with_max_sample_rate
SelectedConfig(config, prefs) ==
    [ channels      |-> config.channels,
      sample_rate   |-> IF SampleRateMatch(config, prefs) = 1 /\ IsSome(prefs.sample_rate)
                        THEN Unwrap(prefs.sample_rate)
                        ELSE config.max_sample_rate,
      buffer_size   |-> config.buffer_size,
      sample_format |-> config.sample_format ]

\* lib.rs 111-192: the loop, from candidate i on.
RECURSIVE PickLoop(_, _, _, _, _)
PickLoop(configs, prefs, i, best_score, best_config) ==
    IF i > Len(configs) THEN best_config
    ELSE IF FormatScore(configs[i].sample_format) = 0
         THEN PickLoop(configs, prefs, i + 1, best_score, best_config)
         ELSE IF TupleGT(CurrentScore(configs[i], prefs), best_score)
              THEN PickLoop(configs, prefs, i + 1, CurrentScore(configs[i], prefs),
                            Some(SelectedConfig(configs[i], prefs)))
              ELSE PickLoop(configs, prefs, i + 1, best_score, best_config)

\* A plausible slip: a fallback config returned when nothing was picked.
pick_best_format_with_fallback(configs, prefs) ==
    LET picked == PickLoop(configs, prefs, 1, <<0, 0, 0, 0>>, None)
    IN  IF picked = None
        THEN Some([ channels |-> 2, sample_rate |-> 48000,
                    buffer_size |-> [kind |-> "Unknown", min |-> 0, max |-> 0],
                    sample_format |-> "F32" ])
        ELSE picked

\* lib.rs 98-195
pick_best_format(configs, prefs) ==
    PickLoop(configs, prefs, 1, <<0, 0, 0, 0>>, None)

UnknownSize == [kind |-> "Unknown", min |-> 0, max |-> 0]
RangeSize(lo, hi) == [kind |-> "Range", min |-> lo, max |-> hi]

\* lib.rs 989-1002 (tests): make_range_with_config
make_range_with_config(ch, fmt, lo, hi, size) ==
    [ channels |-> ch, min_sample_rate |-> lo, max_sample_rate |-> hi,
      buffer_size |-> size, sample_format |-> fmt ]

\* lib.rs 979-987 (tests): make_range
make_range(fmt) == make_range_with_config(2, fmt, 44100, 44100, UnknownSize)

(***************************************************************************)
(* The audio back-ends and devices the engine finds (its environment).     *)
(* The crate builds for Windows only (HostId::Asio, lib.rs 571, and        *)
(* Window::hwnd exist on no other target), so the cfg(target_os =          *)
(* "windows") branches are the ones modelled.                              *)
(***************************************************************************)

\* lib.rs 524: cpal::available_hosts()
AvailableHosts == {"Wasapi", "Asio"}
\* Names a caller may pass; "NoSuch" names nothing.
HostNames == AvailableHosts \cup {"NoSuch"}
\* lib.rs 300: cpal::default_host()
DefaultHost == "Wasapi"
\* lib.rs 536, 571, 609: the back-end whose capture and playback device must be one
ExclusiveHost(h) == h = "Asio"

\* lib.rs 586-588: host.input_devices()
InputDeviceNames(h) == IF h = "Asio" THEN {"AsioA", "AsioB"} ELSE {"Mic", "Line"}
\* lib.rs 646-648: host.output_devices()
OutputDeviceNames(h) == IF h = "Asio" THEN {"AsioA", "AsioB"} ELSE {"Spk", "Phones"}
DeviceNames == {"AsioA", "AsioB", "Mic", "Line", "Spk", "Phones", "NoSuch"}
\* lib.rs 534: host.default_input_device()
DefaultInputName(h) == IF h = "Asio" THEN "AsioA" ELSE "Mic"
\* lib.rs 539: host.default_output_device()
DefaultOutputName(h) == IF h = "Asio" THEN "AsioA" ELSE "Spk"

Device(h, n) == [host |-> h, name |-> n]

\* cpal::BufferSize
DefaultBufferSize == [kind |-> "Default", size |-> 0]
FixedBufferSize(n) == [kind |-> "Fixed", size |-> n]

\* cpal::StreamConfig
StreamConfig(ch, rate, size) == [channels |-> ch, sample_rate |-> rate, buffer_size |-> size]

\* lib.rs 306, 550, 603: SupportedStreamConfig::into() keeps the channel count
\* and the rate, drops the sample format and asks for the default buffer size.
IntoStreamConfig(c) == StreamConfig(c.channels, c.sample_rate, DefaultBufferSize)

\* lib.rs 550: device.default_input_config()
DefaultInputConfig(n) ==
    CASE n = "Mic"   -> [channels |-> 1, sample_rate |-> 44100, sample_format |-> "I16"]
      [] n = "Line"  -> [channels |-> 2, sample_rate |-> 48000, sample_format |-> "F64"]
      [] n = "AsioA" -> [channels |-> 2, sample_rate |-> 44100, sample_format |-> "I32"]
      [] OTHER       -> [channels |-> 2, sample_rate |-> 48000, sample_format |-> "I32"]

\* lib.rs 553: device.default_output_config()
DefaultOutputConfig(n) ==
    CASE n = "Phones" -> [channels |-> 2, sample_rate |-> 44100, sample_format |-> "I16"]
      [] n = "AsioA"  -> [channels |-> 2, sample_rate |-> 48000, sample_format |-> "I32"]
      [] OTHER        -> [channels |-> 2, sample_rate |-> 48000, sample_format |-> "F32"]

\* lib.rs 597: device.supported_input_configs()
SupportedInputConfigs(n) ==
    CASE n = "Mic"   -> << make_range_with_config(1, "I16", 44100, 48000, UnknownSize),
                           make_range_with_config(2, "I32", 44100, 44100, RangeSize(128, 256)) >>
      [] n = "Line"  -> << make_range_with_config(2, "F64", 48000, 48000, UnknownSize) >>
      [] n = "AsioA" -> << make_range_with_config(2, "I32", 44100, 96000, RangeSize(64, 2048)) >>
      [] OTHER       -> << make_range_with_config(2, "F32", 44100, 44100, RangeSize(512, 1024)),
                           make_range_with_config(1, "I32", 44100, 44100, RangeSize(512, 1024)) >>

\* lib.rs 654: device.supported_output_configs()
SupportedOutputConfigs(n) ==
    CASE n = "Spk"    -> << make_range_with_config(2, "F32", 48000, 48000, UnknownSize) >>
      [] n = "Phones" -> << make_range_with_config(2, "I16", 44100, 44100, UnknownSize),
                            make_range_with_config(1, "I32", 44100, 48000, UnknownSize) >>
      [] OTHER        -> SupportedInputConfigs(n)

(***************************************************************************)
(* AudioEngine: the engine is a record e of its fields; every method is an *)
(* operator from the engine before the call (with the outcome of the calls *)
(* it makes into cpal, drawn by the caller) to [e, r]: the engine after    *)
(* the call and "ok", "err" (an Err return) or "panic".                    *)
(***************************************************************************)

MAX_BLOCK_SIZE == 2048

\* `x as i32` of a u32
AsI32(x) == IF x <= 2147483647 THEN x ELSE x - 2147483647 - 2147483647 - 2

Returned(e, r) == [e |-> e, r |-> r]

\* lib.rs 722-729
stop_streams(e) == [e EXCEPT !.input_stream = None, !.output_stream = None]

\* lib.rs 732-744
update_current_settings(e) ==
    LET from(config) ==
            [e EXCEPT !.current_sample_rate = config.sample_rate,
                      !.current_buffer_size =
                          IF config.buffer_size.kind = "Fixed"
                          THEN config.buffer_size.size ELSE @]
    IN  IF IsSome(e.input_config) THEN from(Unwrap(e.input_config))
        ELSE IF IsSome(e.output_config) THEN from(Unwrap(e.output_config))
        ELSE e

\* lib.rs 747-766
update_process_data(e) ==
    [e EXCEPT !.process_data = [num_samples |-> AsI32(e.current_buffer_size)]]

\* lib.rs 598-601 and 655-658: the preferences select_input / select_output pass
SelectPrefs ==
    [ sample_rate |-> Some(48000), buffer_size |-> Some(256),
      sample_format |-> Some("I32"), channels |-> Some(2) ]

\* lib.rs 304-324, 369-393: AudioEngine::default().  env: which default
\* devices exist and whether their default configs can be read.
default_engine(env) ==
    LET input_device == IF env.has_in THEN Some(Device(DefaultHost, DefaultInputName(DefaultHost)))
                        ELSE None
        output_device == IF env.has_out THEN Some(Device(DefaultHost, DefaultOutputName(DefaultHost)))
                         ELSE None
        both == IsSome(input_device) /\ IsSome(output_device)
        input_cfg == IF both /\ env.in_cfg_ok
                     THEN Some(IntoStreamConfig(DefaultInputConfig(Unwrap(input_device).name)))
                     ELSE None
        output_cfg == IF both /\ env.out_cfg_ok
                      THEN Some(IntoStreamConfig(DefaultOutputConfig(Unwrap(output_device).name)))
                      ELSE None
        sample_rate == IF IsSome(input_cfg) THEN Unwrap(input_cfg).sample_rate ELSE 48000
        buffer_size == IF IsSome(input_cfg)
                       THEN IF Unwrap(input_cfg).buffer_size.kind = "Fixed"
                            THEN Unwrap(input_cfg).buffer_size.size ELSE 512
                       ELSE 512
    IN  [ host |-> DefaultHost,
          input_device |-> input_device,
          output_device |-> output_device,
          input_config |-> input_cfg,
          output_config |-> output_cfg,
          input_stream |-> None,
          output_stream |-> None,
          current_sample_rate |-> sample_rate,
          current_buffer_size |-> buffer_size,
          process_data |-> [num_samples |-> AsI32(buffer_size)] ]

\* lib.rs 519-562.  env: host_ok (host_from_id), has_in / has_out (a default
\* device exists), in_cfg_ok / out_cfg_ok (its default config can be read).
select_host(e, host_name, env) ==
    LET e1 == stop_streams(e) IN
    IF host_name \notin AvailableHosts \/ ~env.host_ok THEN Returned(e1, "err")
    ELSE
    LET input_device == IF env.has_in THEN Some(Device(host_name, DefaultInputName(host_name)))
                        ELSE None
        output_device == IF ExclusiveHost(host_name) THEN input_device
                         ELSE IF env.has_out
                              THEN Some(Device(host_name, DefaultOutputName(host_name)))
                              ELSE None
        input_config == IF IsSome(input_device)
                        THEN IF env.in_cfg_ok
                             THEN Some(IntoStreamConfig(DefaultInputConfig(Unwrap(input_device).name)))
                             ELSE None
                        ELSE e1.input_config
        output_config == IF IsSome(output_device)
                         THEN IF env.out_cfg_ok
                              THEN Some(IntoStreamConfig(DefaultOutputConfig(Unwrap(output_device).name)))
                              ELSE None
                         ELSE e1.output_config
        e2 == [e1 EXCEPT !.host = host_name,
                         !.input_device = input_device,
                         !.output_device = output_device,
                         !.input_config = input_config,
                         !.output_config = output_config]
    IN  Returned(update_process_data(update_current_settings(e2)), "ok")

\* lib.rs 571-582 and 631-642: the reset select_input / select_output do on ASIO
reset_for_asio(e) ==
    IF e.host = "Asio"
    THEN [e EXCEPT !.input_device = None, !.output_device = None,
                   !.input_config = None, !.output_config = None]
    ELSE e

\* A plausible slip: the mirror assignment done on every back-end.
mirror_input_to_output_always(e) ==
    [e EXCEPT !.output_device = e.input_device, !.output_config = e.input_config]

\* lib.rs 608-612
mirror_input_to_output(e) ==
    IF ExclusiveHost(e.host)
    THEN [e EXCEPT !.output_device = e.input_device, !.output_config = e.input_config]
    ELSE e

\* A plausible slip: only the device mirrored, the config left behind.
mirror_output_to_input_device_only(e) ==
    IF ExclusiveHost(e.host) THEN [e EXCEPT !.input_device = e.output_device] ELSE e

\* lib.rs 665-669
mirror_output_to_input(e) ==
    IF ExclusiveHost(e.host)
    THEN [e EXCEPT !.input_device = e.output_device, !.input_config = e.output_config]
    ELSE e

\* lib.rs 565-624.  env: host_ok (host_from_id on ASIO), list_ok
\* (host.input_devices()), enum_ok (device.supported_input_configs()).
select_input(e, device_name, env) ==
    LET e1 == reset_for_asio(stop_streams(e)) IN
    IF e1.host = "Asio" /\ ~env.host_ok THEN Returned(e1, "err")
    ELSE IF ~env.list_ok \/ device_name \notin InputDeviceNames(e1.host) THEN Returned(e1, "err")
    ELSE IF ~env.enum_ok THEN Returned(e1, "panic")
    ELSE
    LET best == pick_best_format(SupportedInputConfigs(device_name), SelectPrefs) IN
    IF best = None THEN Returned(e1, "panic")
    ELSE
    LET e2 == [e1 EXCEPT !.input_config = Some(IntoStreamConfig(Unwrap(best))),
                         !.input_device = Some(Device(e1.host, device_name))]
    IN  Returned(update_process_data(update_current_settings(mirror_input_to_output(e2))), "ok")

\* lib.rs 627-681
select_output(e, device_name, env) ==
    LET e1 == reset_for_asio(stop_streams(e)) IN
    IF e1.host = "Asio" /\ ~env.host_ok THEN Returned(e1, "err")
    ELSE IF ~env.list_ok \/ device_name \notin OutputDeviceNames(e1.host) THEN Returned(e1, "err")
    ELSE IF ~env.enum_ok THEN Returned(e1, "panic")
    ELSE
    LET best == pick_best_format(SupportedOutputConfigs(device_name), SelectPrefs) IN
    IF best = None THEN Returned(e1, "panic")
    ELSE
    LET e2 == [e1 EXCEPT !.output_config = Some(IntoStreamConfig(Unwrap(best))),
                         !.output_device = Some(Device(e1.host, device_name))]
    IN  Returned(update_process_data(update_current_settings(mirror_output_to_input(e2))), "ok")

with_sample_rate(config, sample_rate) ==
    IF IsSome(config) THEN Some([Unwrap(config) EXCEPT !.sample_rate = sample_rate]) ELSE config

with_buffer_size(config, buffer_size) ==
    IF IsSome(config)
    THEN Some([Unwrap(config) EXCEPT !.buffer_size = FixedBufferSize(buffer_size)])
    ELSE config

\* lib.rs 684-700
set_sample_rate(e, sample_rate) ==
    Returned(update_process_data(
        [e EXCEPT !.current_sample_rate = sample_rate,
                  !.input_config = with_sample_rate(@, sample_rate),
                  !.output_config = with_sample_rate(@, sample_rate)]), "ok")

\* lib.rs 703-719
set_buffer_size(e, buffer_size) ==
    Returned(update_process_data(
        [e EXCEPT !.current_buffer_size = buffer_size,
                  !.input_config = with_buffer_size(@, buffer_size),
                  !.output_config = with_buffer_size(@, buffer_size)]), "ok")

\* lib.rs 783-809, 816: what the capture closure and the input stream hold
new_input_stream(e) ==
    [ device |-> Unwrap(e.input_device),
      config |-> Unwrap(e.input_config),
      channels |-> Unwrap(e.input_config).channels,
      buffer_size |-> e.current_buffer_size,
      ring_capacity |-> e.current_buffer_size * Unwrap(e.input_config).channels * 2,
      resample_from |-> Unwrap(e.input_config).sample_rate,
      resample_to |-> Unwrap(e.output_config).sample_rate,
      num_samples |-> e.process_data.num_samples ]

\* lib.rs 886-903
new_output_stream(e) ==
    [ device |-> Unwrap(e.output_device),
      config |-> Unwrap(e.output_config) ]

\* The points at which run() can leave early, in source order.
RunOutcomes ==
    { "err_resampler", "panic_default_input_config", "err_build_input",
      "err_build_output", "err_play_input", "err_play_output", "ok" }

\* A plausible slip: the input handle stored as soon as the input stream
\* plays, before the output stream is built and started.
store_streams_input_early(e, outcome) ==
    IF outcome = "ok"
    THEN [e EXCEPT !.input_stream = Some(new_input_stream(e)),
                   !.output_stream = Some(new_output_stream(e))]
    ELSE IF outcome \in {"err_build_output", "err_play_output"}
         THEN [e EXCEPT !.input_stream = Some(new_input_stream(e))]
         ELSE e

\* lib.rs 905-909: the handles are stored only after both streams play
store_streams(e, outcome) ==
    IF outcome = "ok"
    THEN [e EXCEPT !.input_stream = Some(new_input_stream(e)),
                   !.output_stream = Some(new_output_stream(e))]
    ELSE e

\* lib.rs 769-913.  outcome: how far run() gets once the four selections are there.
run(e, outcome) ==
    IF \/ e.input_device = None \/ e.output_device = None
       \/ e.input_config = None \/ e.output_config = None
    THEN Returned(e, "err")
    ELSE Returned(store_streams(e, outcome),
                  IF outcome = "ok" THEN "ok"
                  ELSE IF outcome = "panic_default_input_config" THEN "panic"
                  ELSE "err")

(***************************************************************************)
(* Bounded inputs of pick_best_format                                      *)
(***************************************************************************)

MaxCands == 2       \* longest general candidate list
MaxFormats == 3     \* longest list of make_range(fmt) candidates

PickRates == { <<22050, 22050>>, <<44100, 48000>> }
PickSizes == { UnknownSize, RangeSize(128, 256) }
PickFormats == {"I32", "I16", "F64"}

GeneralCands ==
    { make_range_with_config(ch, fmt, r[1], r[2], size) :
        ch \in {1, 2}, fmt \in PickFormats, r \in PickRates, size \in PickSizes }

FormatCands == { make_range(fmt) : fmt \in SampleFormats }

SeqsUpTo(S, n) == UNION { [1..k -> S] : k \in 0..n }

GeneralPrefs ==
    [ sample_rate   : {None, Some(44100)},
      buffer_size   : {None, Some(256), Some(512)},
      sample_format : {None, Some("I16"), Some("F64")},
      channels      : {None, Some(2)} ]

NoPrefs ==
    [ sample_rate |-> None, buffer_size |-> None,
      sample_format |-> None, channels |-> None ]

(***************************************************************************)
(* The capture callback (lib.rs 818-879) and the plugin registry.          *)
(* A planar buffer is a function channel -> frame -> f32; of its 2048      *)
(* frames the first MaxFrames are modelled.  An f32 sample is written      *)
(* F32(x): the value x / i32::MAX of the captured integer x; 0.0 is F32(0).*)
(***************************************************************************)

MaxFrames == 1      \* longest block a device callback delivers, in frames
MaxLoads == 2       \* successful load_plugin calls in one run

\* lib.rs 222-224: Sync2DArray<f32, 2, MAX_BLOCK_SIZE>
BufferChannels == 0..1
BufferFrames == 0..(MaxFrames - 1)

F32(x) == [f32 |-> x]
\* lib.rs 332-334: Sync2DArray::new(0.0f32, MAX_BLOCK_SIZE)
new_buffer == [j \in BufferChannels |-> [i \in BufferFrames |-> F32(0)]]

\* The blocks a device delivers: n interleaved integer samples, each told
\* apart by its position in the block and by the block it belongs to.
RawBlocks == {1, 2}
Blocks(n) == { [k \in 1..n |-> 10 * b + k] : b \in RawBlocks }

\* lib.rs 824: frame[j] as f32 / i32::MAX as f32
normalize(x) == F32(x)

\* lib.rs 819: data is interleaved, frame after frame
BlockSize(data, channels) == Len(data) \div channels
FrameSample(data, channels, i, j) == data[i * channels + j + 1]

\* lib.rs 822-826: the block written into input_data
normalize_block(in, data, channels) ==
    [j \in BufferChannels |->
        [i \in BufferFrames |->
            IF j < channels /\ i < BlockSize(data, channels)
            THEN normalize(FrameSample(data, channels, i, j))
            ELSE in[j][i]]]

\* lib.rs 838-846: output_data copied to input_data for the next plugin
copy_output_to_input(in, out, block_size, channels) ==
    [j \in BufferChannels |->
        [i \in BufferFrames |->
            IF j < channels /\ i < block_size THEN out[j][i] ELSE in[j][i]]]

\* lib.rs 849-853: output_data cleared before a plugin runs
clear_output(out, block_size, channels) ==
    [j \in BufferChannels |->
        [i \in BufferFrames |->
            IF j < channels /\ i < block_size THEN F32(0) ELSE out[j][i]]]

\* lib.rs 806, 352-365: process_data.num_samples as run() captured it, the
\* engine's buffer size of that moment; the device delivers blocks of its
\* own length (lib.rs 819), shorter or longer.
StreamNumSamples == 1..(MaxFrames + 1)

\* lib.rs 856-860: processor.process(data).  The effect is the plug-in's
\* own; what the host fixes is that it reads the input bus and writes the
\* output bus, both of two channels (lib.rs 337-347), over num_samples
\* frames (lib.rs 352-365).  The plug-ins here are effects in bypass: each
\* copies its input to its output.
plugin_process(in, out, num_samples) ==
    [j \in BufferChannels |->
        [i \in BufferFrames |-> IF i < num_samples THEN in[j][i] ELSE out[j][i]]]

\* One step of the callback on the buffers: what it does, for which plug-in
\* (0: none) and over how many frames.
Ev(ev, plugin, n) == [ev |-> ev, plugin |-> plugin, n |-> n]

\* A plausible slip: the output buffer cleared before it is copied to the
\* input buffer.
RECURSIVE process_chain_clear_first(_, _, _, _, _, _)
process_chain_clear_first(order, index, bufs, block_size, channels, num_samples) ==
    IF index > Len(order) THEN bufs
    ELSE
    LET out1 == clear_output(bufs.out, block_size, channels)
        in1 == IF index > 1
               THEN copy_output_to_input(bufs.in, out1, block_size, channels)
               ELSE bufs.in
        steps == <<Ev("clear", order[index], block_size)>>
                    \o (IF index > 1 THEN <<Ev("copy", order[index], block_size)>> ELSE <<>>)
                    \o <<Ev("process", order[index], num_samples)>>
    IN  process_chain_clear_first(order, index + 1,
                                  [in |-> in1,
                                   out |-> plugin_process(in1, out1, num_samples),
                                   trace |-> bufs.trace \o steps],
                                  block_size, channels, num_samples)

\* lib.rs 833-861: the chain over the plugins in iteration order, from the
\* index-th on; bufs is [in, out, trace], trace being the steps made so far.
RECURSIVE process_chain(_, _, _, _, _, _)
process_chain(order, index, bufs, block_size, channels, num_samples) ==
    IF index > Len(order) THEN bufs
    ELSE
    LET in1 == IF index > 1
               THEN copy_output_to_input(bufs.in, bufs.out, block_size, channels)
               ELSE bufs.in
        out1 == clear_output(bufs.out, block_size, channels)
        steps == (IF index > 1 THEN <<Ev("copy", order[index], block_size)>> ELSE <<>>)
                    \o << Ev("clear", order[index], block_size),
                          Ev("process", order[index], num_samples) >>
    IN  process_chain(order, index + 1,
                      [in |-> in1,
                       out |-> plugin_process(in1, out1, num_samples),
                       trace |-> bufs.trace \o steps],
                      block_size, channels, num_samples)

\* The first block_size frames of the first `channels` channels of a buffer.
BlockOf(buffer, block_size, channels) ==
    [j \in 0..(channels - 1) |-> [i \in 0..(block_size - 1) |-> buffer[j][i]]]

\* lib.rs 864-868: resampler.process_partial_into_buffer reads output_data
\* and writes resampled_data.  The sinc filter itself (rubato) is not
\* modelled: a produced frame is the opaque value Resampled(x) of the input
\* frame x at its index, produced is the number of frames written: none
\* yet, or as many as came in (None: the call failed and wrote nothing; the
\* callback ignores the result).
Resampled(x) == [resampled |-> x]
ResamplerOutcomes(block_size) == {None, Some(0), Some(block_size)}
resample(out, res, produced) ==
    IF produced = None THEN res
    ELSE [j \in BufferChannels |->
            [i \in BufferFrames |->
                IF i < Unwrap(produced) THEN Resampled(out[j][i]) ELSE res[j][i]]]

\* lib.rs 870-878: the samples handed to producer.try_push, in order
RECURSIVE offered_samples(_, _, _)
offered_samples(res, block_size, i) ==
    IF i >= block_size THEN <<>>
    ELSE (IF i \in BufferFrames THEN <<res[0][i], res[1][i]>> ELSE <<>>)
            \o offered_samples(res, block_size, i + 1)

\* lib.rs 865: Some(output_data.as_ref()), the buffer the resampler reads
resampler_source(bufs) == bufs.out

\* lib.rs 818-879: one run of the capture callback on the block `data`;
\* order is the order in which plugins.iter() yields the registry.
capture_callback(in, out, res, data, channels, num_samples, order, produced) ==
    LET block_size == BlockSize(data, channels)
        in0 == normalize_block(in, data, channels)
        bufs == process_chain(order, 1,
                              [in |-> in0, out |-> out,
                               trace |-> <<Ev("normalize", 0, block_size)>>],
                              block_size, channels, num_samples)
        res1 == resample(resampler_source(bufs), res, produced)
    IN  [ input_data |-> bufs.in,
          output_data |-> bufs.out,
          resampled_data |-> res1,
          block |-> [ block_size |-> block_size,
                      captured |-> BlockOf(in0, block_size, channels),
                      chain |-> order,
                      trace |-> bufs.trace \o <<Ev("resample", 0, block_size)>>,
                      resampler_in |-> BlockOf(resampler_source(bufs), block_size, channels),
                      produced |-> produced,
                      offered |-> offered_samples(res1, block_size, 0) ] ]

RECURSIVE Orderings(_)
Orderings(S) ==
    IF S = {} THEN { <<>> }
    ELSE UNION { { <<x>> \o p : p \in Orderings(S \ {x}) } : x \in S }

\* The sequence s without its elements outside S.
RECURSIVE Restrict(_, _)
Restrict(s, S) ==
    IF s = <<>> THEN <<>>
    ELSE (IF Head(s) \in S THEN <<Head(s)>> ELSE <<>>) \o Restrict(Tail(s), S)

\* lib.rs 829-830: plugins.iter().collect().  An FxHashMap is iterated in
\* the order of the buckets its keys hash to; buckets is that order
\* over all ids, whatever the order of insertion.
iter(modules, buckets) == Restrict(buckets, DOMAIN modules)

PluginIds == 1..MaxLoads
PluginPaths == {"effect.vst3", "headless.vst3"}

\* The id counter never advanced: every plug-in gets the first id.
VSTHostContext_new_first_id(path, next_id) ==
    [ id |-> 1, path |-> path, processing |-> FALSE,
      view |-> IF path = "headless.vst3" THEN None ELSE Some("IPlugView"),
      resize_callback |-> FALSE ]

\* vst/host.rs VSTHostContext::new: the loaded plug-in under a fresh
\* PluginId, ids being handed out in increasing order and never reused.
\* Whether the plug-in comes with a view is the plug-in's own matter.
VSTHostContext_new(path, next_id) ==
    [ id |-> next_id, path |-> path, processing |-> FALSE,
      view |-> IF path = "headless.vst3" THEN None ELSE Some("IPlugView"),
      resize_callback |-> FALSE ]

\* FxHashMap::insert and FxHashMap::remove on the registry
insert(modules, id, plugin) ==
    [k \in DOMAIN modules \cup {id} |-> IF k = id THEN plugin ELSE modules[k]]
remove(modules, id) == [k \in DOMAIN modules \ {id} |-> modules[k]]

\* A plausible slip: the plug-in registered without set_processing(true).
load_plugin_not_processing(modules, created) ==
    IF created = None THEN [modules |-> modules, r |-> "err", id |-> None]
    ELSE LET plugin == Unwrap(created)
         IN  [modules |-> insert(modules, plugin.id, plugin), r |-> "ok",
              id |-> Some(plugin.id)]

\* A plausible slip: the registry cleared when the load fails.
load_plugin_clears_on_error(modules, created) ==
    IF created = None THEN [modules |-> <<>>, r |-> "err", id |-> None]
    ELSE LET plugin == [Unwrap(created) EXCEPT !.processing = TRUE]
         IN  [modules |-> insert(modules, plugin.id, plugin), r |-> "ok",
              id |-> Some(plugin.id)]

\* lib.rs 916-930: created is the Result of VSTHostContext::new; id is the
\* PluginId returned
load_plugin(modules, created) ==
    IF created = None THEN [modules |-> modules, r |-> "err", id |-> None]
    ELSE LET plugin == [Unwrap(created) EXCEPT !.processing = TRUE]
         IN  [modules |-> insert(modules, plugin.id, plugin), r |-> "ok",
              id |-> Some(plugin.id)]

\* A plausible slip: an unknown id answered by dropping the oldest entry.
remove_plugin_drops_other(modules, plugin_id) ==
    IF plugin_id \in DOMAIN modules
    THEN [modules |-> remove(modules, plugin_id), r |-> "ok"]
    ELSE IF DOMAIN modules = {} THEN [modules |-> modules, r |-> "err"]
         ELSE [modules |-> remove(modules, CHOOSE k \in DOMAIN modules :
                                                \A m \in DOMAIN modules : k <= m),
               r |-> "err"]

\* lib.rs 933-941
remove_plugin(modules, plugin_id) ==
    IF plugin_id \in DOMAIN modules
    THEN [modules |-> remove(modules, plugin_id), r |-> "ok"]
    ELSE [modules |-> modules, r |-> "err"]

\* A plausible slip: success reported with the entry left in place.
unload_plugin_keeps_entry(modules, plugin_id) ==
    IF plugin_id \in DOMAIN modules
    THEN [modules |-> modules, r |-> "ok"]
    ELSE [modules |-> modules, r |-> "err"]

\* lib.rs 958-966
unload_plugin(modules, plugin_id) ==
    IF plugin_id \in DOMAIN modules
    THEN [modules |-> remove(modules, plugin_id), r |-> "ok"]
    ELSE [modules |-> modules, r |-> "err"]

\* lib.rs 953-955
is_plugin_loaded(modules, plugin_id) == plugin_id \in DOMAIN modules

\* lib.rs 969-971: keys().copied().collect(), in the map's iteration order
get_loaded_plugin_ids(modules, buckets) == iter(modules, buckets)

\* commands.rs 264-279: the id of every value of the registry
get_loaded_plugins(modules, buckets) ==
    [k \in 1..Len(iter(modules, buckets)) |-> [id |-> modules[iter(modules, buckets)[k]].id]]

\* A registry call and what it returned.
Reg(op, id, r) == [op |-> op, id |-> id, r |-> r]

\* What the window system and the view answer during open_plugin_editor;
\* at most one of the calls fails.
EditorEnvs ==
    { env \in [window_ok : BOOLEAN, hwnd_ok : BOOLEAN, attached_ok : BOOLEAN,
               scale_ok : BOOLEAN] :
        Cardinality({ f \in {"window_ok", "hwnd_ok", "attached_ok", "scale_ok"} :
                        ~env[f] }) <= 1 }

\* commands.rs 303-365: open_plugin_editor.  calls lists the calls made on
\* the view and the plug-in, in order; r is "ok", "err" (PluginEditorError)
\* or "panic" (an unwrap of None or Err).
open_plugin_editor(modules, plugin_id, env) ==
    IF plugin_id \notin DOMAIN modules
    THEN [modules |-> modules, r |-> "panic", calls |-> <<>>]
    ELSE IF ~env.window_ok \/ ~env.hwnd_ok
    THEN [modules |-> modules, r |-> "err", calls |-> <<>>]
    ELSE IF modules[plugin_id].view = None
    THEN [modules |-> modules, r |-> "panic", calls |-> <<>>]
    ELSE IF ~env.scale_ok
    THEN [modules |-> modules, r |-> "panic",
          calls |-> <<"attached", "check_size_constraint">>]
    ELSE [modules |-> [modules EXCEPT ![plugin_id].resize_callback = TRUE],
          r |-> "ok",
          calls |-> <<"attached", "check_size_constraint", "on_size",
                      "set_window_resize_callback">>]

\* An open_plugin_editor call, what the view answered to attached, and what
\* the command did and returned.
EditorCall(id, attached_ok, res) ==
    [op |-> "open_plugin_editor", id |-> Some(id), r |-> res.r,
     calls |-> res.calls, attached_ok |-> attached_ok]

(***************************************************************************)
(* The ring between the two callbacks (lib.rs 787-788, 870-878, 888-897).  *)
(* HeapRb is ringbuf's single-producer single-consumer queue; split()      *)
(* gives the one producer, moved into the capture closure, and the one     *)
(* consumer, moved into the playback closure.  try_push and try_pop are    *)
(* each one atomic step on the queue.                                      *)
(***************************************************************************)

MaxRingBuffer == 1  \* largest buffer_size the ring is sized from
MaxCaptures == 3    \* capture callbacks in one run

\* lib.rs 787: HeapRb::<f32>::new(buffer_size * channels * 2)
new_ring(buffer_size, channels) ==
    [capacity |-> buffer_size * channels * 2, items |-> <<>>]

\* lib.rs 876: producer.try_push(sample): appended unless the ring is full
try_push(rb, sample) ==
    IF Len(rb.items) < rb.capacity
    THEN [rb |-> [rb EXCEPT !.items = Append(@, sample)], r |-> "ok"]
    ELSE [rb |-> rb, r |-> "full"]

\* lib.rs 890: consumer.try_pop(): the oldest value, or None when empty
try_pop(rb) ==
    IF rb.items = <<>>
    THEN [rb |-> rb, r |-> None]
    ELSE [rb |-> [rb EXCEPT !.items = Tail(@)], r |-> Some(Head(rb.items))]

\* lib.rs 870-878: the pushes one capture callback of block_size frames
\* makes, both channel arrays of resampled_data at every frame.  A pushed
\* value is told apart by the number of the push that offers it.
pushes_of_block(block_size, first) == [k \in 1..(2 * block_size) |-> first + k - 1]

\* A plausible slip: a push that is tried again until the ring takes it.
producer_step_retry(rb, pending) ==
    LET res == try_push(rb, Head(pending))
    IN  [rb |-> res.rb, pending |-> IF res.r = "ok" THEN Tail(pending) ELSE pending,
         r |-> res.r]

\* lib.rs 871-877: one turn of the producer loop; the result of try_push is
\* dropped and the loop goes on to the next sample
producer_step(rb, pending) ==
    LET res == try_push(rb, Head(pending))
    IN  [rb |-> res.rb, pending |-> Tail(pending), r |-> res.r]

\* The consumer taking two values for one slot and playing the second.
consumer_step_pop_twice(rb) ==
    LET first == try_pop(rb)
    IN  IF IsSome(first.r) /\ first.rb.items # <<>> THEN try_pop(first.rb) ELSE first

\* lib.rs 889-896: one turn of the consumer loop; r is what try_pop gave
consumer_step(rb) == try_pop(rb)

\* lib.rs 890-896: what is written to the slot, the popped value (told by
\* the number of its push, never 0) or 0i32 when the ring was empty
slot_value(r) == IF IsSome(r) THEN Unwrap(r) ELSE 0

(***************************************************************************)
(* Spec: the control plane.  Callers hold the engine behind one mutex      *)
(* (commands.rs 15, 121), so every method call is one atomic step; a panic *)
(* inside a call poisons the mutex and no later call gets through.         *)
(***************************************************************************)

BOOL == {TRUE, FALSE}

DefaultEnvs == [has_in : BOOL, has_out : BOOL, in_cfg_ok : BOOL, out_cfg_ok : BOOL]
\* A call that fails at one point never reaches the later ones: one failure at most.
HostEnvs ==
    { env \in [host_ok : BOOL, has_in : BOOL, has_out : BOOL, in_cfg_ok : BOOL, out_cfg_ok : BOOL] :
        ~env.host_ok => (env.has_in /\ env.has_out /\ env.in_cfg_ok /\ env.out_cfg_ok) }
SelectEnvs ==
    { env \in [host_ok : BOOL, list_ok : BOOL, enum_ok : BOOL] :
        \/ env.host_ok /\ env.list_ok
        \/ env.host_ok /\ env.enum_ok
        \/ env.list_ok /\ env.enum_ok }

\* Arguments callers pass.
SampleRateArgs == {44100, 48000}
BufferSizeArgs == {256, 2048, 4096}

Op(op, name, n, r) == [op |-> op, name |-> name, n |-> n, r |-> r]

EngineIdle ==
    /\ engine = default_engine([has_in |-> FALSE, has_out |-> FALSE,
                                in_cfg_ok |-> FALSE, out_cfg_ok |-> FALSE])
    /\ poisoned = FALSE
    /\ last_op = Op("new", "", 0, "ok")

PickIdle ==
    /\ pk_pc = "idle"
    /\ pk_configs = <<>>
    /\ pk_prefs = NoPrefs
    /\ pk_result = None

ChainIdle ==
    /\ plugin_modules = <<>>
    /\ next_plugin_id = 1
    /\ load_order = <<>>
    /\ bucket_order = <<>>
    /\ input_data = <<>>
    /\ output_data = <<>>
    /\ resampled_data = <<>>
    /\ stream = <<>>
    /\ last_block = None
    /\ last_reg = None
    /\ issued = <<>>

RingIdle ==
    /\ ring = new_ring(0, 0)
    /\ cap_pending = <<>>
    /\ play_left = 0
    /\ captures = 0
    /\ accepted = <<>>
    /\ rejected = {}
    /\ full_on_reject = TRUE
    /\ delivered = <<>>
    /\ played = None

LoaderIdle == loader = <<>>
ArraysIdle == arrays = <<>>
SyncIdle == sync = <<>>
EditorsIdle == editors = <<>>

AuxIdle ==
    /\ LoaderIdle
    /\ ArraysIdle
    /\ SyncIdle
    /\ EditorsIdle

(***************************************************************************)
(* Module: the loader of a plug-in's shared library                        *)
(* (vst3/src/platform/windows.rs, macos.rs).  A library is what the path   *)
(* holds: whether the OS can load it and which of the three entry points   *)
(* it exports ("init": InitDll / bundleEntry, "exit": ExitDll /            *)
(* bundleExit, "factory": GetPluginFactory).  calls lists the calls made   *)
(* into the OS and the library: "load", "init", "factory", "exit",         *)
(* "close"; handle tells whether the OS handle is held.                    *)
(***************************************************************************)

MaxGetFactory == 2  \* get_factory calls on one Module

Platforms == {"windows", "macos"}
Entries == {"init", "exit", "factory"}
Libraries == [loads : BOOLEAN, exports : SUBSET Entries]

NoModule(platform, lib) ==
    [ platform |-> platform, lib |-> lib, state |-> "none", handle |-> "closed",
      calls |-> <<>>, factories |-> 0 ]

\* windows.rs 14-22, macos.rs 22-48: Module::new.  On Windows the Library
\* is dropped, and so closed, when the init entry is missing; on macOS the
\* loaded bundle is not released on that path.
Module_new(m) ==
    IF ~m.lib.loads
    THEN [m EXCEPT !.state = "failed"]
    ELSE IF "init" \notin m.lib.exports
    THEN IF m.platform = "windows"
         THEN [m EXCEPT !.state = "failed", !.calls = <<"load", "close">>]
         ELSE [m EXCEPT !.state = "failed", !.calls = <<"load">>, !.handle = "open"]
    ELSE [m EXCEPT !.state = "live", !.calls = <<"load", "init">>, !.handle = "open"]

\* windows.rs 24-34, macos.rs 50-66: get_factory, the entry looked up and
\* called afresh each time; an Err when the library does not export it.
Module_get_factory(m) ==
    IF "factory" \in m.lib.exports
    THEN [m EXCEPT !.calls = Append(@, "factory"), !.factories = @ + 1]
    ELSE [m EXCEPT !.factories = @ + 1]

\* A plausible slip: the handle released first, the teardown entry called
\* in the unmapped library.
Module_drop_close_first(m) ==
    IF "exit" \in m.lib.exports
    THEN [m EXCEPT !.state = "dropped", !.handle = "closed",
                   !.calls = @ \o <<"close", "exit">>]
    ELSE [m EXCEPT !.state = IF m.platform = "windows" THEN "panicked" ELSE "dropped",
                   !.handle = "closed", !.calls = Append(@, "close")]

\* windows.rs 37-47, macos.rs 68-81: Drop.  Without the teardown entry the
\* Windows drop panics at get(b"ExitDll").unwrap(), the Library being closed
\* as the panic unwinds; the macOS drop skips the call.
Module_drop(m) ==
    IF "exit" \in m.lib.exports
    THEN [m EXCEPT !.state = "dropped", !.handle = "closed",
                   !.calls = @ \o <<"exit", "close">>]
    ELSE [m EXCEPT !.state = IF m.platform = "windows" THEN "panicked" ELSE "dropped",
                   !.handle = "closed", !.calls = Append(@, "close")]

(***************************************************************************)
(* Sync2DArray (lib.rs 23-94): a handle is two Arcs, `references` to the   *)
(* array of per-channel pointers and `data` to the samples.  A heap maps   *)
(* the address of every Arc allocation to what it holds; a per-channel     *)
(* pointer is the pair of a data allocation's address and a channel.       *)
(***************************************************************************)

MaxHandles == 3     \* handles of one buffer: the first and its clones

Samples == {0, 1, 2}
\* Indices a caller may pass: the modelled ones and one past each array.
ChannelArgs == BufferChannels \cup {2}
IdxArgs == BufferFrames \cup {MAX_BLOCK_SIZE}

ChannelPtr(data, channel) == [data |-> data, channel |-> channel]

EmptyHeap == [next |-> 1, references |-> <<>>, data |-> <<>>]

\* lib.rs 41-52: Sync2DArray::new(default, buffer_size): the samples in one
\* Arc, the pointers to its channels in another.
Sync2DArray_new(heap, default) ==
    LET d == heap.next
        r == heap.next + 1
    IN  [ heap |-> [ next |-> heap.next + 2,
                     references |-> heap.references @@
                                        (r :> [j \in BufferChannels |-> ChannelPtr(d, j)]),
                     data |-> heap.data @@
                                  (d :> [j \in BufferChannels |->
                                            [i \in BufferFrames |-> default]]) ],
          handle |-> [references |-> r, data |-> d] ]

\* A plausible slip: a clone that copies the samples and builds its own
\* pointer array.
clone_deep(heap, handle) ==
    LET d == heap.next
        r == heap.next + 1
    IN  [ heap |-> [ next |-> heap.next + 2,
                     references |-> heap.references @@
                                        (r :> [j \in BufferChannels |-> ChannelPtr(d, j)]),
                     data |-> heap.data @@ (d :> heap.data[handle.data]) ],
          handle |-> [references |-> r, data |-> d] ]

\* lib.rs 24: #[derive(Clone)]: both Arcs are cloned, nothing is allocated.
clone(heap, handle) == [heap |-> heap, handle |-> handle]

\* lib.rs 60-62: as_ptr(), the address of the pointer array
as_ptr(handle) == handle.references

\* lib.rs 64-68: write(channel, idx, sample); an index past either array
\* panics at the bounds check and writes nothing.
write(heap, handle, channel, idx, sample) ==
    IF channel \in BufferChannels /\ idx < MAX_BLOCK_SIZE
    THEN [ heap |-> [heap EXCEPT !.data[handle.data][channel][idx] = sample], r |-> "ok" ]
    ELSE [ heap |-> heap, r |-> "panic" ]

\* lib.rs 54-58: read(), the samples behind a handle
read(heap, handle) == heap.data[handle.data]

(***************************************************************************)
(* SpecPick: pick_best_format applied to bounded inputs                    *)
(***************************************************************************)

PickInit ==
    /\ EngineIdle
    /\ ChainIdle
    /\ RingIdle
    /\ AuxIdle
    /\ pk_pc = "input"
    /\ pk_result = None
    /\ \/ /\ pk_configs \in SeqsUpTo(GeneralCands, MaxCands)
          /\ pk_prefs \in GeneralPrefs
       \/ /\ pk_configs \in SeqsUpTo(FormatCands, MaxFormats)
          /\ pk_prefs = NoPrefs

\* One call of pick_best_format on the drawn input.
PickCall ==
    /\ pk_pc = "input"
    /\ pk_result' = pick_best_format(pk_configs, pk_prefs)
    /\ pk_pc' = "done"
    /\ UNCHANGED <<pk_configs, pk_prefs, engineVars, chainVars, ringVars, auxVars>>

PickNext == PickCall

SpecPick == PickInit /\ [][PickNext]_vars

Init ==
    /\ \E env \in DefaultEnvs : engine = default_engine(env)
    /\ poisoned = FALSE
    /\ last_op = Op("new", "", 0, "ok")
    /\ PickIdle
    /\ ChainIdle
    /\ RingIdle
    /\ AuxIdle

\* One method call returning res, made through the mutex.
Call(op, name, n, res) ==
    /\ ~poisoned
    /\ engine' = res.e
    /\ poisoned' = (res.r = "panic")
    /\ last_op' = Op(op, name, n, res.r)
    /\ UNCHANGED <<pickVars, chainVars, ringVars, auxVars>>

SelectHost ==
    \E host_name \in HostNames, env \in HostEnvs :
        Call("select_host", host_name, 0, select_host(engine, host_name, env))

SelectInput ==
    \E device_name \in DeviceNames, env \in SelectEnvs :
        Call("select_input", device_name, 0, select_input(engine, device_name, env))

SelectOutput ==
    \E device_name \in DeviceNames, env \in SelectEnvs :
        Call("select_output", device_name, 0, select_output(engine, device_name, env))

SetSampleRate ==
    \E sample_rate \in SampleRateArgs :
        Call("set_sample_rate", "", sample_rate, set_sample_rate(engine, sample_rate))

SetBufferSize ==
    \E buffer_size \in BufferSizeArgs :
        Call("set_buffer_size", "", buffer_size, set_buffer_size(engine, buffer_size))

Run ==
    \E outcome \in RunOutcomes :
        Call("run", outcome, 0, run(engine, outcome))

Next ==
    \/ SelectHost
    \/ SelectInput
    \/ SelectOutput
    \/ SetSampleRate
    \/ SetBufferSize
    \/ Run

Spec == Init /\ [][Next]_vars

(***************************************************************************)
(* SpecSettings: the engine built at startup from the stored settings      *)
(* (settings.rs 8-20), one call on one thread before any command.          *)
(***************************************************************************)

\* commands.rs 78-84, lib.rs 480-482: host_name()
get_host(e) == e.host

\* commands.rs 86-95, lib.rs 490-492: input_device_name()
get_input_device(e) ==
    IF IsSome(e.input_device) THEN Some(Unwrap(e.input_device).name) ELSE None

\* commands.rs 97-106, lib.rs 505-507: output_device_name()
get_output_device(e) ==
    IF IsSome(e.output_device) THEN Some(Unwrap(e.output_device).name) ELSE None

\* commands.rs 108-114, lib.rs 519-521: buffer_size()
get_buffer_size(e) == e.current_buffer_size

\* settings.rs 12-17: the "audio-settings" object; a field that is absent
\* or of another JSON type is None.
StoredSettings ==
    [ host        : {None} \cup { Some(h) : h \in HostNames },
      input       : {None} \cup { Some(n) : n \in {"AsioA", "AsioB", "Mic", "Line", "NoSuch"} },
      output      : {None} \cup { Some(n) : n \in {"AsioA", "AsioB", "Spk", "NoSuch"} },
      buffer_size : {None} \cup { Some(n) : n \in {256, 4096} } ]

\* What cpal answers during the four calls of one startup.
Failures(env) == Cardinality({ f \in DOMAIN env : ~env[f] })
StartupEnvs ==
    { env \in [def : DefaultEnvs, host : HostEnvs, input : SelectEnvs, output : SelectEnvs] :
        Failures(env.def) + Failures(env.host) + Failures(env.input) + Failures(env.output) <= 1 }
StartupAllOk(env) ==
    Failures(env.def) + Failures(env.host) + Failures(env.input) + Failures(env.output) = 0

\* settings.rs 8-20: create_audio_engine_from_settings.  Every Err is dropped
\* by .ok(); a panic unwinds out of the function.  after_host is the engine
\* as it stands after line 13.
create_audio_engine_from_settings(settings, env) ==
    LET e0 == default_engine(env.def)
        h == IF IsSome(settings.host)
             THEN select_host(e0, Unwrap(settings.host), env.host)
             ELSE Returned(e0, "ok")
        i == IF IsSome(settings.input)
             THEN select_input(h.e, Unwrap(settings.input), env.input)
             ELSE Returned(h.e, "ok")
        o == IF IsSome(settings.output)
             THEN select_output(i.e, Unwrap(settings.output), env.output)
             ELSE Returned(i.e, "ok")
        b == IF IsSome(settings.buffer_size)
             THEN set_buffer_size(o.e, Unwrap(settings.buffer_size))
             ELSE Returned(o.e, "ok")
    IN  IF i.r = "panic" THEN [e |-> i.e, r |-> "panic", after_host |-> h.e]
        ELSE IF o.r = "panic" THEN [e |-> o.e, r |-> "panic", after_host |-> h.e]
        ELSE [e |-> b.e, r |-> "ok", after_host |-> h.e]

\* The startup call and what it was given.
Startup(settings, env, res) ==
    [ op |-> "create_audio_engine_from_settings", settings |-> settings,
      all_ok |-> StartupAllOk(env), after_host |-> res.after_host, r |-> res.r ]

\* src-tauri/src/lib.rs 131-135: the setup hook builds the engine once.
CreateFromSettings ==
    \E settings \in StoredSettings, env \in StartupEnvs :
        /\ last_op.op = "new"
        /\ LET res == create_audio_engine_from_settings(settings, env)
           IN  /\ engine' = res.e
               /\ last_op' = Startup(settings, env, res)
        /\ UNCHANGED <<poisoned, pickVars, chainVars, ringVars, auxVars>>

SettingsInit ==
    /\ EngineIdle
    /\ PickIdle
    /\ ChainIdle
    /\ RingIdle
    /\ AuxIdle

SettingsNext == CreateFromSettings

SpecSettings == SettingsInit /\ [][SettingsNext]_vars

(***************************************************************************)
(* SpecChain: the plugin registry and the capture callback of running      *)
(* streams.  The callback holds the registry's read lock over the whole    *)
(* chain (lib.rs 829), so a block is one step against load and unload.     *)
(***************************************************************************)

ChainInit ==
    /\ plugin_modules = <<>>
    /\ next_plugin_id = 1
    /\ load_order = <<>>
    /\ bucket_order \in Orderings(PluginIds)
    /\ input_data = new_buffer
    /\ output_data = new_buffer
    /\ resampled_data = new_buffer
    /\ stream \in [channels : {1, 2}, num_samples : StreamNumSamples, capturing : {TRUE}]
    /\ last_block = None
    /\ last_reg = None
    /\ issued = <<>>
    /\ PickIdle
    /\ EngineIdle
    /\ RingIdle
    /\ AuxIdle

ChainFrame == UNCHANGED <<pickVars, engine, last_op, ringVars, auxVars, bucket_order>>

\* commands.rs 283-284 and the like: a command locks the engine mutex with
\* lock().unwrap(), which panics once a call has panicked holding it.
Command ==
    /\ ~poisoned
    /\ UNCHANGED <<poisoned, stream>>

LoadPlugin ==
    \E path \in PluginPaths, loads \in BOOLEAN :
        /\ Command
        /\ next_plugin_id <= MaxLoads
        /\ LET created == IF loads THEN Some(VSTHostContext_new(path, next_plugin_id))
                          ELSE None
               res == load_plugin(plugin_modules, created)
           IN  /\ plugin_modules' = res.modules
               /\ next_plugin_id' = IF loads THEN next_plugin_id + 1 ELSE next_plugin_id
               /\ load_order' = IF res.r = "ok" THEN Append(load_order, Unwrap(res.id))
                                ELSE load_order
               /\ issued' = IF res.r = "ok" THEN Append(issued, Unwrap(res.id)) ELSE issued
               /\ last_reg' = Some(Reg("load_plugin", res.id, res.r))
        /\ last_block' = None
        /\ UNCHANGED <<input_data, output_data, resampled_data>>
        /\ ChainFrame

RemovePlugin ==
    \E plugin_id \in PluginIds :
        /\ Command
        /\ LET res == remove_plugin(plugin_modules, plugin_id)
           IN  /\ plugin_modules' = res.modules
               /\ load_order' = IF res.r = "ok" THEN Restrict(load_order, PluginIds \ {plugin_id})
                                ELSE load_order
               /\ last_reg' = Some(Reg("remove_plugin", Some(plugin_id), res.r))
        /\ last_block' = None
        /\ UNCHANGED <<next_plugin_id, issued, input_data, output_data, resampled_data>>
        /\ ChainFrame

UnloadPlugin ==
    \E plugin_id \in PluginIds :
        /\ Command
        /\ LET res == unload_plugin(plugin_modules, plugin_id)
           IN  /\ plugin_modules' = res.modules
               /\ load_order' = IF res.r = "ok" THEN Restrict(load_order, PluginIds \ {plugin_id})
                                ELSE load_order
               /\ last_reg' = Some(Reg("unload_plugin", Some(plugin_id), res.r))
        /\ last_block' = None
        /\ UNCHANGED <<next_plugin_id, issued, input_data, output_data, resampled_data>>
        /\ ChainFrame

\* commands.rs 303-365.  A panic leaves the engine mutex and the registry's
\* lock poisoned: both guards are held when it happens.
OpenPluginEditor ==
    \E plugin_id \in PluginIds, env \in EditorEnvs :
        /\ ~poisoned
        /\ LET res == open_plugin_editor(plugin_modules, plugin_id, env)
           IN  /\ plugin_modules' = res.modules
               /\ poisoned' = (res.r = "panic")
               /\ last_reg' = Some(EditorCall(plugin_id, env.attached_ok, res))
        /\ last_block' = None
        /\ UNCHANGED <<next_plugin_id, load_order, issued, stream, input_data, output_data,
                       resampled_data>>
        /\ ChainFrame

\* lib.rs 818-879.  With the registry's lock poisoned the callback writes the
\* block to input_data and panics at plugin_modules.read().unwrap(), which
\* ends the capture thread.
CaptureBlock ==
    \E block_size \in 1..MaxFrames :
        \E data \in Blocks(block_size * stream.channels),
           produced \in ResamplerOutcomes(block_size) :
            LET cb == capture_callback(input_data, output_data, resampled_data, data,
                                       stream.channels, stream.num_samples,
                                       iter(plugin_modules, bucket_order), produced)
            IN  /\ stream.capturing
                /\ IF poisoned
                   THEN /\ input_data' = normalize_block(input_data, data, stream.channels)
                        /\ stream' = [stream EXCEPT !.capturing = FALSE]
                        /\ last_block' = None
                        /\ UNCHANGED <<output_data, resampled_data>>
                   ELSE /\ input_data' = cb.input_data
                        /\ output_data' = cb.output_data
                        /\ resampled_data' = cb.resampled_data
                        /\ last_block' = Some([ block_size |-> cb.block.block_size,
                                                captured |-> cb.block.captured,
                                                chain |-> cb.block.chain,
                                                trace |-> cb.block.trace,
                                                produced |-> cb.block.produced,
                                                resampled |-> cb.resampled_data,
                                                resampler_in |-> cb.block.resampler_in,
                                                offered |-> cb.block.offered,
                                                loaded |-> load_order ])
                        /\ UNCHANGED stream
                /\ last_reg' = None
                /\ UNCHANGED <<plugin_modules, next_plugin_id, load_order, issued, poisoned>>
                /\ ChainFrame

ChainNext ==
    \/ LoadPlugin
    \/ RemovePlugin
    \/ UnloadPlugin
    \/ OpenPluginEditor
    \/ CaptureBlock

SpecChain == ChainInit /\ [][ChainNext]_vars

(***************************************************************************)
(* SpecBlock: the capture callback as a function of what it finds: the     *)
(* registry the loads built, the running stream, the block delivered and   *)
(* the buffers as new or as earlier blocks left them.  One block is taken  *)
(* from each such start.                                                   *)
(***************************************************************************)

\* A buffer as blocks before this one may have left it.
used_buffer == [j \in BufferChannels |-> [i \in BufferFrames |-> F32(9)]]
used_resampled == [j \in BufferChannels |-> [i \in BufferFrames |-> Resampled(F32(9))]]

BlockInit ==
    /\ plugin_modules = <<>>
    /\ next_plugin_id = 1
    /\ load_order = <<>>
    /\ bucket_order \in Orderings(PluginIds)
    /\ \/ input_data = new_buffer /\ output_data = new_buffer /\ resampled_data = new_buffer
       \/ input_data = used_buffer /\ output_data = used_buffer
            /\ resampled_data = used_resampled
    /\ stream \in [channels : {1, 2}, num_samples : StreamNumSamples, capturing : {TRUE}]
    /\ last_block = None
    /\ last_reg = None
    /\ issued = <<>>
    /\ PickIdle
    /\ EngineIdle
    /\ RingIdle
    /\ AuxIdle

\* The block delivered to buffers no block of this run has touched.
FirstBlock ==
    /\ input_data \in {new_buffer, used_buffer}
    /\ CaptureBlock

BlockNext ==
    \/ LoadPlugin
    \/ FirstBlock

SpecBlock == BlockInit /\ [][BlockNext]_vars

(***************************************************************************)
(* SpecRegistry: the commands on the registry alone, as the callers        *)
(* holding the engine mutex make them.  The capture callback takes the     *)
(* registry's read lock only (lib.rs 829) and cannot change it.            *)
(***************************************************************************)

RegistryNext ==
    \/ LoadPlugin
    \/ RemovePlugin
    \/ UnloadPlugin
    \/ OpenPluginEditor

SpecRegistry == ChainInit /\ [][RegistryNext]_vars

(***************************************************************************)
(* SpecModule: one library, the Module made of it, the factory queries on  *)
(* it and its drop.  get_factory takes &mut self: it can only be called    *)
(* on a Module that was returned and is not yet dropped.                   *)
(***************************************************************************)

ModuleInit ==
    /\ \E platform \in Platforms, lib \in Libraries : loader = NoModule(platform, lib)
    /\ arrays = <<>>
    /\ sync = <<>>
    /\ editors = <<>>
    /\ PickIdle
    /\ EngineIdle
    /\ ChainIdle
    /\ RingIdle

ModuleFrame ==
    UNCHANGED <<pickVars, engineVars, chainVars, ringVars, arrays, sync, editors>>

ModuleNew ==
    /\ loader.state = "none"
    /\ loader' = Module_new(loader)
    /\ ModuleFrame

ModuleGetFactory ==
    /\ loader.state = "live"
    /\ loader.factories < MaxGetFactory
    /\ loader' = Module_get_factory(loader)
    /\ ModuleFrame

ModuleDrop ==
    /\ loader.state = "live"
    /\ loader' = Module_drop(loader)
    /\ ModuleFrame

ModuleNext ==
    \/ ModuleNew
    \/ ModuleGetFactory
    \/ ModuleDrop

SpecModule == ModuleInit /\ [][ModuleNext]_vars

(***************************************************************************)
(* SpecArray: one Sync2DArray as the engine makes it (lib.rs 332), its     *)
(* clones (lib.rs 807-809) and writes through any of the handles.          *)
(* made_ptr and made_ptrs are as_ptr() and the pointers it led to when the *)
(* buffer was made; last is the latest call.                               *)
(***************************************************************************)

ArrayInit ==
    /\ LET made == Sync2DArray_new(EmptyHeap, 0)
       IN  arrays = [ heap |-> made.heap,
                      handles |-> <<made.handle>>,
                      made_ptr |-> as_ptr(made.handle),
                      made_ptrs |-> made.heap.references[as_ptr(made.handle)],
                      last |-> [op |-> "new", handle |-> 1, channel |-> 0, idx |-> 0,
                                sample |-> 0, r |-> "ok"] ]
    /\ loader = <<>>
    /\ sync = <<>>
    /\ editors = <<>>
    /\ PickIdle
    /\ EngineIdle
    /\ ChainIdle
    /\ RingIdle

ArrayFrame ==
    UNCHANGED <<pickVars, engineVars, chainVars, ringVars, loader, sync, editors>>

ArrayClone ==
    \E h \in 1..Len(arrays.handles) :
        /\ Len(arrays.handles) < MaxHandles
        /\ LET res == clone(arrays.heap, arrays.handles[h])
           IN  arrays' = [arrays EXCEPT
                            !.heap = res.heap,
                            !.handles = Append(@, res.handle),
                            !.last = [op |-> "clone", handle |-> h, channel |-> 0,
                                      idx |-> 0, sample |-> 0, r |-> "ok"]]
        /\ ArrayFrame

ArrayWrite ==
    \E h \in 1..Len(arrays.handles), channel \in ChannelArgs, idx \in IdxArgs,
       sample \in Samples :
        /\ LET res == write(arrays.heap, arrays.handles[h], channel, idx, sample)
           IN  arrays' = [arrays EXCEPT
                            !.heap = res.heap,
                            !.last = [op |-> "write", handle |-> h, channel |-> channel,
                                      idx |-> idx, sample |-> sample, r |-> res.r]]
        /\ ArrayFrame

ArrayNext ==
    \/ ArrayClone
    \/ ArrayWrite

SpecArray == ArrayInit /\ [][ArrayNext]_vars

(***************************************************************************)
(* SpecLock: the registry's RwLock between the capture thread and the      *)
(* command thread (commands run one at a time, under the engine mutex).    *)
(* sync holds the lock (readers, writer), where each thread stands (cap,   *)
(* cmd) and the state of every plug-in context made (ctx): "new" once      *)
(* constructed, "registered" while in the registry, "destroyed" once       *)
(* dropped.  poisoned tells that a command panicked holding the engine     *)
(* mutex and the registry's write guard: unwinding releases both and       *)
(* leaves them poisoned, and every later lock().unwrap(), read().unwrap()  *)
(* or write().unwrap() panics.                                             *)
(***************************************************************************)

CapIdle == [pc |-> "idle", list |-> <<>>, index |-> 0]
CmdIdle(op, id, r) == [pc |-> "idle", op |-> op, id |-> id, plugin |-> None, r |-> r]

\* A plausible slip: the ids collected and the read guard dropped before
\* the chain runs.
begin_chain_unguarded(sy, modules, buckets) ==
    [sy EXCEPT !.cap = [pc |-> "chain", list |-> iter(modules, buckets), index |-> 1]]

\* lib.rs 829-830: plugin_modules.read().unwrap() and plugins.iter().collect();
\* the guard `plugins` lives to the end of the unsafe block (lib.rs 862).
begin_chain(sy, modules, buckets) ==
    [sy EXCEPT !.readers = 1,
               !.cap = [pc |-> "chain", list |-> iter(modules, buckets), index |-> 1]]

\* lib.rs 856-860: the process call on the index-th plug-in of the list
process_next(sy) == [sy EXCEPT !.cap.index = @ + 1]

\* A plausible slip: the read guard kept (leaked) when the chain ends.
end_chain_keeps_guard(sy) == [sy EXCEPT !.cap = CapIdle]

\* lib.rs 862: the end of the unsafe block drops the read guard
end_chain(sy) == [sy EXCEPT !.readers = 0, !.cap = CapIdle]

LockInit ==
    /\ plugin_modules = <<>>
    /\ next_plugin_id = 1
    /\ bucket_order \in Orderings(PluginIds)
    /\ load_order = <<>>
    /\ input_data = <<>>
    /\ output_data = <<>>
    /\ resampled_data = <<>>
    /\ stream = <<>>
    /\ last_block = None
    /\ last_reg = None
    /\ issued = <<>>
    /\ sync = [ readers |-> 0, writer |-> FALSE, poisoned |-> FALSE, cap |-> CapIdle,
                cmd |-> CmdIdle("", 0, "ok"), ctx |-> <<>> ]
    /\ loader = <<>>
    /\ arrays = <<>>
    /\ editors = <<>>
    /\ PickIdle
    /\ EngineIdle
    /\ RingIdle

LockFrame ==
    UNCHANGED <<pickVars, engineVars, ringVars, loader, arrays, editors, load_order,
                bucket_order,
                input_data, output_data, resampled_data, stream, last_block, last_reg,
                issued>>

\* lib.rs 818-826: the device calls the capture closure, which writes the
\* block to input_data and then asks for the read lock
CapArrive ==
    /\ sync.cap.pc = "idle"
    /\ sync' = [sync EXCEPT !.cap.pc = "acquire"]
    /\ UNCHANGED <<plugin_modules, next_plugin_id>>
    /\ LockFrame

\* lib.rs 829: read() waits while a writer holds the lock; on a poisoned
\* lock unwrap() panics and the capture thread ends
CapBeginChain ==
    /\ sync.cap.pc = "acquire"
    /\ ~sync.writer
    /\ sync' = IF sync.poisoned THEN [sync EXCEPT !.cap.pc = "panicked"]
               ELSE begin_chain(sync, plugin_modules, bucket_order)
    /\ UNCHANGED <<plugin_modules, next_plugin_id>>
    /\ LockFrame

CapProcess ==
    /\ sync.cap.pc = "chain"
    /\ sync.cap.index <= Len(sync.cap.list)
    /\ sync' = process_next(sync)
    /\ UNCHANGED <<plugin_modules, next_plugin_id>>
    /\ LockFrame

CapEndChain ==
    /\ sync.cap.pc = "chain"
    /\ sync.cap.index > Len(sync.cap.list)
    /\ sync' = end_chain(sync)
    /\ UNCHANGED <<plugin_modules, next_plugin_id>>
    /\ LockFrame

\* lib.rs 919-925: the context is made and set processing before the lock
\* is asked for; a failed VSTHostContext::new returns at once.
CmdLoad ==
    \E path \in PluginPaths, loads \in BOOLEAN :
        /\ sync.cmd.pc = "idle"
        /\ ~sync.poisoned
        /\ next_plugin_id <= MaxLoads
        /\ IF loads
           THEN LET plugin == VSTHostContext_new(path, next_plugin_id)
                IN  /\ sync' = [sync EXCEPT
                                  !.cmd = [pc |-> "acquire", op |-> "load_plugin",
                                           id |-> plugin.id, plugin |-> Some(plugin),
                                           r |-> "ok"],
                                  !.ctx = @ @@ (plugin.id :> "new")]
                    /\ next_plugin_id' = next_plugin_id + 1
           ELSE /\ sync' = [sync EXCEPT !.cmd = CmdIdle("load_plugin", 0, "err")]
                /\ UNCHANGED next_plugin_id
        /\ UNCHANGED plugin_modules
        /\ LockFrame

\* lib.rs 933-934, 958-959: remove_plugin / unload_plugin ask for the lock
CmdRemove ==
    \E op \in {"remove_plugin", "unload_plugin"}, plugin_id \in PluginIds :
        /\ sync.cmd.pc = "idle"
        /\ ~sync.poisoned
        /\ sync' = [sync EXCEPT !.cmd = [pc |-> "acquire", op |-> op, id |-> plugin_id,
                                         plugin |-> None, r |-> "ok"]]
        /\ UNCHANGED <<plugin_modules, next_plugin_id>>
        /\ LockFrame

\* commands.rs 303-310: open_plugin_editor asks for the write lock
\* (plugin_modules_mut, lib.rs 948-950) and keeps the guard to its end
CmdOpenEditor ==
    \E plugin_id \in PluginIds :
        /\ sync.cmd.pc = "idle"
        /\ ~sync.poisoned
        /\ sync' = [sync EXCEPT !.cmd = [pc |-> "acquire", op |-> "open_plugin_editor",
                                         id |-> plugin_id, plugin |-> None, r |-> "ok"]]
        /\ UNCHANGED <<plugin_modules, next_plugin_id>>
        /\ LockFrame

\* commands.rs 284, 295, 306: lock().unwrap() on the poisoned engine mutex
\* panics before the command does anything
CmdOnPoisoned ==
    \E op \in {"load_plugin", "remove_plugin", "open_plugin_editor"} :
        /\ sync.cmd.pc = "idle"
        /\ sync.poisoned
        /\ sync' = [sync EXCEPT !.cmd = CmdIdle(op, 0, "panic")]
        /\ UNCHANGED <<plugin_modules, next_plugin_id>>
        /\ LockFrame

\* plugin_modules.write(): waits for the readers and the writer to leave
CmdAcquire ==
    /\ sync.cmd.pc = "acquire"
    /\ sync.readers = 0
    /\ ~sync.writer
    /\ sync' = [sync EXCEPT !.writer = TRUE, !.cmd.pc = "locked"]
    /\ UNCHANGED <<plugin_modules, next_plugin_id>>
    /\ LockFrame

\* lib.rs 927, 934, 959: insert or remove on the locked map; commands.rs
\* 313-358: the editor opened on the locked map, a panic of which unwinds
\* through both guards
CmdMutate ==
    /\ sync.cmd.pc = "locked"
    /\ \E env \in EditorEnvs :
        LET res == CASE sync.cmd.op = "load_plugin" ->
                          load_plugin(plugin_modules, sync.cmd.plugin)
                    [] sync.cmd.op = "remove_plugin" ->
                          remove_plugin(plugin_modules, sync.cmd.id)
                    [] sync.cmd.op = "open_plugin_editor" ->
                          open_plugin_editor(plugin_modules, sync.cmd.id, env)
                    [] OTHER -> unload_plugin(plugin_modules, sync.cmd.id)
        IN /\ plugin_modules' = res.modules
           /\ sync' = CASE sync.cmd.op = "load_plugin" ->
                             [sync EXCEPT !.cmd.pc = "release",
                                          !.ctx[sync.cmd.id] = "registered"]
                        [] sync.cmd.op = "open_plugin_editor" ->
                             [sync EXCEPT !.cmd.pc = "release", !.cmd.r = res.r,
                                          !.poisoned = (res.r = "panic")]
                        [] OTHER ->
                             [sync EXCEPT !.cmd.pc = IF res.r = "ok" THEN "drop_removed"
                                                     ELSE "release",
                                          !.cmd.r = res.r]
    /\ UNCHANGED next_plugin_id
    /\ LockFrame

\* lib.rs 934-940, 959-965: the removed context is the value matched on; it
\* is dropped where the match ends, before the guard made earlier in the
\* same expression.
CmdDropRemoved ==
    /\ sync.cmd.pc = "drop_removed"
    /\ sync' = [sync EXCEPT !.cmd.pc = "release", !.ctx[sync.cmd.id] = "destroyed"]
    /\ UNCHANGED <<plugin_modules, next_plugin_id>>
    /\ LockFrame

\* The write guard is dropped: at the end of the statement (lib.rs 927) or
\* of the match (lib.rs 940, 965).
CmdRelease ==
    /\ sync.cmd.pc = "release"
    /\ sync' = [sync EXCEPT !.writer = FALSE,
                            !.cmd = CmdIdle(sync.cmd.op, sync.cmd.id, sync.cmd.r)]
    /\ UNCHANGED <<plugin_modules, next_plugin_id>>
    /\ LockFrame

LockNext ==
    \/ CapArrive
    \/ CapBeginChain
    \/ CapProcess
    \/ CapEndChain
    \/ CmdLoad
    \/ CmdRemove
    \/ CmdOpenEditor
    \/ CmdOnPoisoned
    \/ CmdAcquire
    \/ CmdMutate
    \/ CmdDropRemoved
    \/ CmdRelease

SpecLock == LockInit /\ [][LockNext]_vars

\* A thread that runs makes its next step; a thread waiting in read() or
\* write() gets the lock if the lock is free again and again (the capture
\* thread releases it at the end of every block, a command at its end).
\* When the device calls the capture closure and when the user issues a
\* command is up to them.
SpecLockLive ==
    /\ LockInit /\ [][LockNext]_vars
    /\ SF_vars(CapBeginChain) /\ WF_vars(CapProcess) /\ WF_vars(CapEndChain)
    /\ SF_vars(CmdAcquire) /\ WF_vars(CmdMutate) /\ WF_vars(CmdDropRemoved)
    /\ WF_vars(CmdRelease)

(***************************************************************************)
(* SpecEditor: the registry commands and the editor windows.  A window     *)
(* opened by open_plugin_editor carries the plug-in's id as its label and  *)
(* a close handler that holds a copy of the plug-in's view (commands.rs    *)
(* 331, 360-364).  Window events come from the window system, outside the  *)
(* engine mutex.                                                           *)
(***************************************************************************)

NoEditors == [windows |-> {}, last_event |-> None]

\* A call made on a plug-in's view and whether that plug-in was in the
\* registry when it was made.
ViewCall(call, plugin_id, modules) ==
    [call |-> call, plugin |-> plugin_id, registered |-> plugin_id \in DOMAIN modules]

\* commands.rs 360-364: window.on_window_event(..), reached when the command
\* returns Ok; the window then lives until it is closed.
on_window_event(ed, plugin_id, res) ==
    IF res.r = "ok" THEN [ed EXCEPT !.windows = @ \cup {plugin_id}] ELSE ed

\* commands.rs 361-363: CloseRequested calls view.removed() on the view the
\* handler holds, and the window closes.
close_requested(ed, plugin_id, modules) ==
    [ed EXCEPT !.windows = @ \ {plugin_id},
               !.last_event = Some(ViewCall("removed", plugin_id, modules))]

\* commands.rs 348-356: the resize callback kept in the plug-in's context
\* calls view.on_size(..) when the plug-in asks for a new size.
window_resize_callback(ed, plugin_id, modules) ==
    [ed EXCEPT !.last_event = Some(ViewCall("on_size", plugin_id, modules))]

EditorInit ==
    /\ plugin_modules = <<>>
    /\ next_plugin_id = 1
    /\ load_order = <<>>
    /\ bucket_order \in Orderings(PluginIds)
    /\ input_data = new_buffer
    /\ output_data = new_buffer
    /\ resampled_data = new_buffer
    /\ stream \in [channels : {1, 2}, num_samples : StreamNumSamples, capturing : {TRUE}]
    /\ last_block = None
    /\ last_reg = None
    /\ issued = <<>>
    /\ editors = NoEditors
    /\ LoaderIdle
    /\ ArraysIdle
    /\ SyncIdle
    /\ PickIdle
    /\ EngineIdle
    /\ RingIdle

EditorFrame ==
    UNCHANGED <<pickVars, engine, last_op, ringVars, loader, arrays, sync, bucket_order>>

\* commands.rs 303-368: a second window under a label in use is refused by
\* the window system.
EditorOpen ==
    \E plugin_id \in PluginIds, env \in EditorEnvs :
        /\ ~poisoned
        /\ (plugin_id \in editors.windows) => ~env.window_ok
        /\ LET res == open_plugin_editor(plugin_modules, plugin_id, env)
           IN  /\ plugin_modules' = res.modules
               /\ poisoned' = (res.r = "panic")
               /\ last_reg' = Some(EditorCall(plugin_id, env.attached_ok, res))
               /\ editors' = on_window_event(editors, plugin_id, res)
        /\ last_block' = None
        /\ UNCHANGED <<next_plugin_id, load_order, issued, stream, input_data, output_data,
                       resampled_data>>
        /\ EditorFrame

WindowClose ==
    \E plugin_id \in editors.windows :
        /\ editors' = close_requested(editors, plugin_id, plugin_modules)
        /\ UNCHANGED <<chainVars, poisoned>>
        /\ EditorFrame

ViewResize ==
    \E plugin_id \in editors.windows \cap DOMAIN plugin_modules :
        /\ plugin_modules[plugin_id].resize_callback
        /\ editors' = window_resize_callback(editors, plugin_id, plugin_modules)
        /\ UNCHANGED <<chainVars, poisoned>>
        /\ EditorFrame

\* LoadPlugin and RemovePlugin leave every window as it is.
EditorNext ==
    \/ LoadPlugin
    \/ RemovePlugin
    \/ EditorOpen
    \/ WindowClose
    \/ ViewResize

SpecEditor == EditorInit /\ [][EditorNext]_vars

(***************************************************************************)
(* SpecRing: the two callbacks of running streams on their threads, one    *)
(* try_push or try_pop a step.  accepted, rejected, full_on_reject and     *)
(* delivered record what the pushes and pops did.                          *)
(***************************************************************************)

RingInit ==
    /\ \E buffer_size \in 1..MaxRingBuffer, channels \in {1, 2} :
            ring = new_ring(buffer_size, channels)
    /\ cap_pending = <<>>
    /\ play_left = 0
    /\ captures = 0
    /\ accepted = <<>>
    /\ rejected = {}
    /\ full_on_reject = TRUE
    /\ delivered = <<>>
    /\ played = None
    /\ PickIdle
    /\ EngineIdle
    /\ ChainIdle
    /\ AuxIdle

RingFrame == UNCHANGED <<pickVars, engineVars, chainVars, auxVars>>

\* The number of pushes made so far.
Attempts == Len(accepted) + Cardinality(rejected)

\* lib.rs 818-819: the device calls the capture closure with a block
CaptureBegin ==
    /\ cap_pending = <<>>
    /\ captures < MaxCaptures
    /\ \E block_size \in 1..MaxFrames :
            cap_pending' = pushes_of_block(block_size, Attempts + 1)
    /\ captures' = captures + 1
    /\ UNCHANGED <<ring, play_left, accepted, rejected, full_on_reject, delivered,
                   played>>
    /\ RingFrame

ProducerPush ==
    /\ cap_pending # <<>>
    /\ LET st == producer_step(ring, cap_pending)
       IN  /\ ring' = st.rb
           /\ cap_pending' = st.pending
           /\ accepted' = IF st.r = "ok" THEN Append(accepted, Head(cap_pending))
                          ELSE accepted
           /\ rejected' = IF st.r = "ok" THEN rejected
                          ELSE rejected \cup {Head(cap_pending)}
           /\ full_on_reject' = (full_on_reject
                                 /\ (st.r # "ok" => Len(ring.items) = ring.capacity))
    /\ UNCHANGED <<play_left, captures, delivered, played>>
    /\ RingFrame

\* lib.rs 888: the device calls the playback closure with a buffer to fill
PlaybackBegin ==
    /\ play_left = 0
    /\ \E slots \in 1..(2 * MaxFrames) : play_left' = slots
    /\ played' = None
    /\ UNCHANGED <<ring, cap_pending, captures, accepted, rejected, full_on_reject,
                   delivered>>
    /\ RingFrame

ConsumerPop ==
    /\ play_left > 0
    /\ LET st == consumer_step(ring)
       IN  /\ ring' = st.rb
           /\ delivered' = IF IsSome(st.r) THEN Append(delivered, Unwrap(st.r))
                           ELSE delivered
           /\ played' = Some(slot_value(st.r))
    /\ play_left' = play_left - 1
    /\ UNCHANGED <<cap_pending, captures, accepted, rejected, full_on_reject>>
    /\ RingFrame

RingNext ==
    \/ CaptureBegin
    \/ ProducerPush
    \/ PlaybackBegin
    \/ ConsumerPop

SpecRing == RingInit /\ [][RingNext]_vars

\* Each callback, once the device has called it, runs on its own thread
\* until it returns: the loops of the two closures get their turns.  When
\* the device calls either closure is the device's matter: no fairness on
\* CaptureBegin or PlaybackBegin, so the playback side may never pop.
MaxLiveCaptures == 2    \* capture callbacks in one run followed to its end

LiveCaptureBegin ==
    /\ captures < MaxLiveCaptures
    /\ CaptureBegin

LiveNext ==
    \/ LiveCaptureBegin
    \/ ProducerPush
    \/ PlaybackBegin
    \/ ConsumerPop

SpecRingLive ==
    RingInit /\ [][LiveNext]_vars /\ WF_vars(ProducerPush) /\ WF_vars(ConsumerPop)

(***************************************************************************)
(* Claims about pick_best_format (checked under SpecPick)                  *)
(***************************************************************************)

PositionIn(seq, x) == CHOOSE k \in 1..Len(seq) : seq[k] = x

\* The ranking spec section 4.G.1 names as the default, lowest first.
DefaultRanking == <<"U8", "I8", "U16", "I16", "U32", "F32", "I32">>
\* The ranking spec section 4.G.1 names for a call without preferences.
NoPrefsRanking == <<"U8", "I8", "U16", "I16", "U32", "I32", "F32">>

RateInRange(c) ==
    \/ pk_prefs.sample_rate = None
    \/ /\ c.min_sample_rate <= Unwrap(pk_prefs.sample_rate)
       /\ Unwrap(pk_prefs.sample_rate) <= c.max_sample_rate

SizeInRangeOrUnknown(c) ==
    \/ pk_prefs.buffer_size = None
    \/ c.buffer_size.kind = "Unknown"
    \/ /\ c.buffer_size.min <= Unwrap(pk_prefs.buffer_size)
       /\ Unwrap(pk_prefs.buffer_size) <= c.buffer_size.max

FormatPriority(c) ==
    PositionIn(DefaultRanking, c.sample_format)
        + (IF pk_prefs.sample_format = Some(c.sample_format) THEN 100 ELSE 0)

ChannelsMatch(c) ==
    pk_prefs.channels = None \/ c.channels = Unwrap(pk_prefs.channels)

Bit(b) == IF b THEN 1 ELSE 0

PreferenceKey(c) ==
    << Bit(RateInRange(c)), Bit(SizeInRangeOrUnknown(c)),
       FormatPriority(c), Bit(ChannelsMatch(c)) >>

LexGreater(a, b) ==
    \/ a[1] > b[1]
    \/ a[1] = b[1] /\ a[2] > b[2]
    \/ a[1] = b[1] /\ a[2] = b[2] /\ a[3] > b[3]
    \/ a[1] = b[1] /\ a[2] = b[2] /\ a[3] = b[3] /\ a[4] > b[4]

\* The returned config is candidate c instantiated at some rate of its range.
InstanceOf(r, c) ==
    /\ r.sample_format = c.sample_format
    /\ r.channels = c.channels
    /\ r.buffer_size = c.buffer_size
    /\ c.min_sample_rate <= r.sample_rate
    /\ r.sample_rate <= c.max_sample_rate

RankedCands == { i \in 1..Len(pk_configs) : pk_configs[i].sample_format \in RankedFormats }

OtherwiseEqual(c, d) ==
    /\ c.channels = d.channels
    /\ c.min_sample_rate = d.min_sample_rate
    /\ c.max_sample_rate = d.max_sample_rate
    /\ c.buffer_size = d.buffer_size

\* C2 (as claimed): without preferences, on candidates that differ only in
\* their sample format, the returned candidate has the format that is highest
\* in F32 > I32 > U32 > I16 > U16 > I8 > U8.
PickNoPrefsRanksF32First ==
    ( /\ pk_pc = "done"
      /\ pk_prefs = NoPrefs
      /\ Len(pk_configs) >= 1
      /\ \A i \in 1..Len(pk_configs) : pk_configs[i].sample_format \in RankedFormats
      /\ \A i, j \in 1..Len(pk_configs) :
            /\ OtherwiseEqual(pk_configs[i], pk_configs[j])
            /\ (i # j => pk_configs[i].sample_format # pk_configs[j].sample_format) )
    => /\ IsSome(pk_result)
       /\ \A i \in 1..Len(pk_configs) :
             PositionIn(NoPrefsRanking, Unwrap(pk_result).sample_format)
                >= PositionIn(NoPrefsRanking, pk_configs[i].sample_format)

\* C11: for an empty candidate list pick_best_format returns None, whatever
\* the preferences.
PickEmptyReturnsNone ==
    (pk_pc = "done" /\ pk_configs = <<>>) => pk_result = None

\* C11 witness: a call on the empty list with every preference given.
PickEmptyWithPrefsReached ==
    /\ pk_pc = "done"
    /\ pk_configs = <<>>
    /\ IsSome(pk_prefs.sample_rate)
    /\ IsSome(pk_prefs.buffer_size)
    /\ IsSome(pk_prefs.sample_format)
    /\ IsSome(pk_prefs.channels)

\* The ranked candidates no ranked candidate beats.
BestCands ==
    LET key == [i \in RankedCands |-> PreferenceKey(pk_configs[i])]
    IN  { i \in RankedCands : \A j \in RankedCands : ~LexGreater(key[j], key[i]) }

\* The earliest of them in the input list.
FirstBest ==
    LET best == BestCands
    IN  CHOOSE i \in best : \A j \in best : i <= j

\* C12: when several candidates have the same maximal score, the one
\* earliest in the input list is returned.
PickTieGoesToEarliest ==
    (pk_pc = "done" /\ RankedCands # {}) =>
        /\ IsSome(pk_result)
        /\ InstanceOf(Unwrap(pk_result), pk_configs[FirstBest])

\* C12 witness: two candidates tied at the top that differ in their channel
\* count, and the call returned.
PickTieReached ==
    /\ pk_pc = "done"
    /\ \E i, j \in BestCands : pk_configs[i].channels # pk_configs[j].channels

\* C13: the returned config is at the preferred sample rate when that rate
\* lies in the chosen candidate's range, and at the candidate's maximum rate
\* otherwise, also when no rate is preferred.
PickInstantiatesRate ==
    (pk_pc = "done" /\ RankedCands # {}) =>
        LET chosen == pk_configs[FirstBest]
        IN  /\ IsSome(pk_result)
            /\ Unwrap(pk_result).sample_rate =
                  IF IsSome(pk_prefs.sample_rate) /\ RateInRange(chosen)
                  THEN Unwrap(pk_prefs.sample_rate)
                  ELSE chosen.max_sample_rate

\* C13 witness: the preferred rate lies in the chosen candidate's range below
\* its maximum.
PickPreferredRateBelowMaxReached ==
    /\ pk_pc = "done"
    /\ RankedCands # {}
    /\ IsSome(pk_prefs.sample_rate)
    /\ RateInRange(pk_configs[FirstBest])
    /\ Unwrap(pk_prefs.sample_rate) < pk_configs[FirstBest].max_sample_rate

\* Candidate i is matched on rate and buffer size at least as well as
\* every candidate of S.
TopTier(i, S) ==
    \A j \in S :
        /\ RateInRange(pk_configs[j]) => RateInRange(pk_configs[i])
        /\ (RateInRange(pk_configs[j]) = RateInRange(pk_configs[i])
            /\ SizeInRangeOrUnknown(pk_configs[j]))
              => SizeInRangeOrUnknown(pk_configs[i])

\* C14 (as claimed): with a preferred sample format, whichever it is, a
\* candidate of exactly that format which no candidate beats on rate match
\* and buffer-size match is chosen over every candidate of another format.
PickPreferredFormatWins ==
    (pk_pc = "done" /\ IsSome(pk_prefs.sample_format)) =>
        \A i \in 1..Len(pk_configs) :
            (pk_configs[i].sample_format = Unwrap(pk_prefs.sample_format)
             /\ TopTier(i, 1..Len(pk_configs)))
                => /\ IsSome(pk_result)
                   /\ Unwrap(pk_result).sample_format = Unwrap(pk_prefs.sample_format)

\* C14 (amended): with a preferred sample format that is one of the seven
\* ranked formats, a candidate of exactly that format which no ranked
\* candidate beats on rate match and buffer-size match is chosen over every
\* candidate of another format, whatever the ranking of the formats.
PickPreferredRankedFormatWins ==
    (pk_pc = "done" /\ IsSome(pk_prefs.sample_format)
     /\ Unwrap(pk_prefs.sample_format) \in RankedFormats) =>
        \A i \in RankedCands :
            (pk_configs[i].sample_format = Unwrap(pk_prefs.sample_format)
             /\ TopTier(i, RankedCands))
                => /\ IsSome(pk_result)
                   /\ Unwrap(pk_result).sample_format = Unwrap(pk_prefs.sample_format)

\* C14 witness: the preferred format was returned although a candidate of a
\* higher-ranked format tied with it on rate match and buffer-size match.
PickPreferredOverHigherRankedReached ==
    /\ pk_pc = "done"
    /\ IsSome(pk_prefs.sample_format)
    /\ IsSome(pk_result)
    /\ Unwrap(pk_result).sample_format = Unwrap(pk_prefs.sample_format)
    /\ \E i, j \in RankedCands :
          /\ pk_configs[i].sample_format = Unwrap(pk_prefs.sample_format)
          /\ TopTier(i, RankedCands)
          /\ TopTier(j, RankedCands)
          /\ PositionIn(DefaultRanking, pk_configs[j].sample_format)
                > PositionIn(DefaultRanking, pk_configs[i].sample_format)

(***************************************************************************)
(* Claims about the control plane (checked under Spec)                     *)
(***************************************************************************)

ConfigOps == {"select_host", "select_input", "select_output", "set_sample_rate", "set_buffer_size"}

\* C3 (as claimed): after any select_host / select_input / select_output /
\* set_sample_rate / set_buffer_size call, and until the next run(), both
\* stream handles are None.
StreamsNoneAfterConfigOp ==
    last_op.op \in ConfigOps =>
        (engine.input_stream = None /\ engine.output_stream = None)

\* C4: in every reachable engine state input_stream is Some exactly when
\* output_stream is Some.
StreamsPaired ==
    IsSome(engine.input_stream) <=> IsSome(engine.output_stream)

\* C4 witness: a run() that had all four selections failed on its second
\* (output) stream and left neither handle stored.
RunFailedOnOutputStoredNeither ==
    /\ last_op.op = "run"
    /\ last_op.name \in {"err_build_output", "err_play_output"}
    /\ last_op.r = "err"
    /\ IsSome(engine.input_device) /\ IsSome(engine.output_device)
    /\ IsSome(engine.input_config) /\ IsSome(engine.output_config)
    /\ engine.input_stream = None
    /\ engine.output_stream = None

\* C8: on the exclusive back-end a successful select_input(X) leaves X as
\* input and output device with equal configs, a successful select_output(Y)
\* leaves Y as output and input device with equal configs, and streams that
\* run on the exclusive back-end were started on one device for both sides.
ExclusiveSelectMirrors ==
    /\ (last_op.op = "select_input" /\ last_op.r = "ok" /\ ExclusiveHost(engine.host)) =>
          /\ engine.input_device = Some(Device(engine.host, last_op.name))
          /\ engine.output_device = Some(Device(engine.host, last_op.name))
          /\ IsSome(engine.input_config)
          /\ engine.output_config = engine.input_config
    /\ (last_op.op = "select_output" /\ last_op.r = "ok" /\ ExclusiveHost(engine.host)) =>
          /\ engine.output_device = Some(Device(engine.host, last_op.name))
          /\ engine.input_device = Some(Device(engine.host, last_op.name))
          /\ IsSome(engine.output_config)
          /\ engine.input_config = engine.output_config
    /\ (ExclusiveHost(engine.host) /\ IsSome(engine.input_stream) /\ IsSome(engine.output_stream)) =>
          Unwrap(engine.input_stream).device = Unwrap(engine.output_stream).device

\* C8 witness: select_output("AsioB") succeeded on the exclusive back-end.
ExclusiveSelectOutputReached ==
    /\ last_op.op = "select_output"
    /\ last_op.r = "ok"
    /\ last_op.name = "AsioB"
    /\ ExclusiveHost(engine.host)
    /\ engine.input_device = Some(Device("Asio", "AsioB"))

\* C9: on a non-exclusive back-end a select_input call leaves output_device
\* and output_config as they were, and a select_output call leaves
\* input_device and input_config as they were.
NonExclusiveSelectKeepsOtherSide ==
    [][ /\ (last_op'.op = "select_input" /\ ~ExclusiveHost(engine.host)) =>
              /\ engine'.output_device = engine.output_device
              /\ engine'.output_config = engine.output_config
        /\ (last_op'.op = "select_output" /\ ~ExclusiveHost(engine.host)) =>
              /\ engine'.input_device = engine.input_device
              /\ engine'.input_config = engine.input_config ]_vars

\* C9 witness: select_input("Mic") succeeded on the non-exclusive back-end
\* while an output device with a different config stayed selected.
NonExclusiveSelectInputReached ==
    /\ last_op.op = "select_input"
    /\ last_op.r = "ok"
    /\ ~ExclusiveHost(engine.host)
    /\ engine.input_device = Some(Device(engine.host, "Mic"))
    /\ engine.output_device = Some(Device(engine.host, "Phones"))
    /\ engine.output_config # engine.input_config

\* C10 (as claimed): the current buffer size never exceeds MAX_BLOCK_SIZE.
BufferSizeWithinMaxBlock ==
    engine.current_buffer_size <= MAX_BLOCK_SIZE

\* C19 (as claimed): whenever run() returns an error, whatever the state it
\* was called in, input_stream and output_stream are both None afterwards.
RunErrorLeavesPaused ==
    (last_op.op = "run" /\ last_op.r = "err") =>
        (engine.input_stream = None /\ engine.output_stream = None)

(***************************************************************************)
(* Claims about the capture callback, the registry and the ring            *)
(***************************************************************************)

\* C5: with an empty plugin registry, the samples a capture block hands to
\* the resampler are that block's normalized captured samples.
EmptyChainPassesThrough ==
    (IsSome(last_block) /\ Unwrap(last_block).chain = <<>>)
        => Unwrap(last_block).resampler_in = Unwrap(last_block).captured

\* C6: in every capture block the plugins are processed in the order in
\* which they were loaded.
ChainInLoadOrder ==
    IsSome(last_block) => Unwrap(last_block).chain = Unwrap(last_block).loaded

StrictlyIncreasing(s) == \A a, b \in DOMAIN s : a < b => s[a] < s[b]

\* C7: on the ring between the capture callback and the playback callback,
\* under every interleaving of try_push and try_pop, the values popped are
\* the accepted pushes in push order, each once; the values buffered never
\* outnumber the capacity; a push is refused only when the ring is full.
RingFifo ==
    /\ Len(ring.items) <= ring.capacity
    /\ accepted = delivered \o ring.items
    /\ StrictlyIncreasing(accepted)
    /\ \A k \in rejected : \A a \in DOMAIN accepted : accepted[a] # k
    /\ full_on_reject

\* C7 witness: a push found the ring full, values were popped, and a later
\* push was accepted and popped in its turn.
RingRefusedThenDelivered ==
    \E k \in rejected : \E d \in DOMAIN delivered : delivered[d] > k

(***************************************************************************)
(* Claims about the plugin registry (checked under SpecRegistry)           *)
(***************************************************************************)

Range(seq) == { seq[k] : k \in DOMAIN seq }
NoDuplicates(seq) == \A a, b \in DOMAIN seq : a # b => seq[a] # seq[b]

\* C15: over any sequence of loads and unloads no two successful loads
\* return the same PluginId, ids of unloaded plug-ins included, and a load
\* never overwrites an entry of the registry (every successful load adds one).
PluginIdsNeverReused ==
    /\ NoDuplicates(issued)
    /\ DOMAIN plugin_modules \subseteq Range(issued)
    /\ Cardinality(DOMAIN plugin_modules) = Len(load_order)

\* C15 witness: a load made after the first plug-in was unloaded returned
\* its id.
LoadAfterUnloadReached ==
    /\ Len(issued) = 2
    /\ ~is_plugin_loaded(plugin_modules, issued[1])
    /\ is_plugin_loaded(plugin_modules, issued[2])
    /\ IsSome(last_reg)
    /\ Unwrap(last_reg) = Reg("load_plugin", Some(issued[2]), "ok")

\* C16: an id is reported loaded, by is_plugin_loaded, get_loaded_plugin_ids
\* and get_loaded_plugins, exactly from the load_plugin call that returned
\* it to the unload_plugin or remove_plugin call on it that succeeded; the
\* calls made on other ids do not change that.
MembershipFollowsLoadUnload ==
    /\ \A id \in PluginIds :
          is_plugin_loaded(plugin_modules, id) <=> id \in Range(load_order)
    /\ Range(get_loaded_plugin_ids(plugin_modules, bucket_order)) = Range(load_order)
    /\ NoDuplicates(get_loaded_plugin_ids(plugin_modules, bucket_order))
    /\ { p.id : p \in Range(get_loaded_plugins(plugin_modules, bucket_order)) }
          = Range(load_order)

\* C16 witness: of two loaded plug-ins the first was just unloaded and the
\* second is still reported.
UnloadedOneOfTwoReached ==
    /\ Len(issued) = 2
    /\ IsSome(last_reg)
    /\ Unwrap(last_reg) = Reg("unload_plugin", Some(issued[1]), "ok")
    /\ ~is_plugin_loaded(plugin_modules, issued[1])
    /\ is_plugin_loaded(plugin_modules, issued[2])

\* C17: unload_plugin or remove_plugin of an id that is not in the registry
\* returns the not-found error and leaves the registry, the streams and
\* their buffers as they were.
UnknownIdIsRejected ==
    [][ ( /\ IsSome(last_reg')
          /\ Unwrap(last_reg').op \in {"unload_plugin", "remove_plugin"}
          /\ ~is_plugin_loaded(plugin_modules, Unwrap(Unwrap(last_reg').id)) )
        => ( /\ Unwrap(last_reg').r = "err"
             /\ plugin_modules' = plugin_modules
             /\ load_order' = load_order
             /\ UNCHANGED <<engine, stream, input_data, output_data, resampled_data>> )
      ]_vars

\* C17 witness: remove_plugin of an unknown id was refused while another
\* plug-in was loaded.
RemoveUnknownRefusedReached ==
    /\ IsSome(last_reg)
    /\ Unwrap(last_reg).op = "remove_plugin"
    /\ Unwrap(last_reg).r = "err"
    /\ plugin_modules # <<>>

\* C18: a load_plugin call that fails returns an error, and no id, and
\* leaves the registry exactly as it was.
FailedLoadLeavesRegistry ==
    [][ ( /\ IsSome(last_reg')
          /\ Unwrap(last_reg').op = "load_plugin"
          /\ Unwrap(last_reg').r = "err" )
        => ( /\ Unwrap(last_reg').id = None
             /\ plugin_modules' = plugin_modules
             /\ load_order' = load_order
             /\ issued' = issued )
      ]_vars

\* C18 witness: a load failed while a plug-in was loaded.
LoadFailedWithPluginLoadedReached ==
    /\ IsSome(last_reg)
    /\ Unwrap(last_reg) = Reg("load_plugin", None, "err")
    /\ plugin_modules # <<>>

\* C20 (as claimed): when the view's attached call fails, open_plugin_editor
\* returns the editor error and makes no further call on the view or the
\* plug-in: no check_size_constraint, no on_size, no resize callback.
EditorAttachFailureStops ==
    ( /\ IsSome(last_reg)
      /\ Unwrap(last_reg).op = "open_plugin_editor"
      /\ "attached" \in Range(Unwrap(last_reg).calls)
      /\ ~Unwrap(last_reg).attached_ok )
    => /\ Unwrap(last_reg).r = "err"
       /\ Unwrap(last_reg).calls = <<"attached">>

\* C21 (as claimed): an open_plugin_editor request that does not succeed,
\* an unknown plug-in id and a plug-in without a view included, returns the
\* editor error to the caller, and whatever editor requests were made the
\* engine mutex and the registry lock stay usable and the capture callback
\* keeps running.
EditorFailureLeavesAudioRunning ==
    /\ ( /\ IsSome(last_reg)
         /\ Unwrap(last_reg).op = "open_plugin_editor"
         /\ Unwrap(last_reg).r # "ok" )
       => Unwrap(last_reg).r = "err"
    /\ ~poisoned
    /\ stream.capturing

\* C22 (as claimed): building the engine from stored settings {host H,
\* input A, output B, buffer_size N} never panics, and when cpal answers
\* every call the getters report H, A, B and N for each of them that names
\* an existing back-end or device and the default for each that does not.
SettingsRoundTrip ==
    (last_op.op = "create_audio_engine_from_settings") =>
        /\ last_op.r = "ok"
        /\ last_op.all_ok =>
            LET s == last_op.settings
                d == last_op.after_host
            IN  /\ get_host(engine) =
                      IF IsSome(s.host) /\ Unwrap(s.host) \in AvailableHosts
                      THEN Unwrap(s.host) ELSE DefaultHost
                /\ get_input_device(engine) =
                      IF IsSome(s.input) /\ Unwrap(s.input) \in InputDeviceNames(get_host(engine))
                      THEN s.input ELSE get_input_device(d)
                /\ get_output_device(engine) =
                      IF IsSome(s.output) /\ Unwrap(s.output) \in OutputDeviceNames(get_host(engine))
                      THEN s.output ELSE get_output_device(d)
                /\ get_buffer_size(engine) =
                      IF IsSome(s.buffer_size) THEN Unwrap(s.buffer_size) ELSE get_buffer_size(d)

\* C23 (as claimed): in every capture block every plug-in process call is
\* passed num_samples equal to the block's block_size, the number of input
\* samples divided by the channel count.
ProcessTickCarriesBlockSize ==
    IsSome(last_block) =>
        \A k \in 1..Len(Unwrap(last_block).trace) :
            Unwrap(last_block).trace[k].ev = "process"
                => Unwrap(last_block).trace[k].n = Unwrap(last_block).block_size

\* C24 (as claimed): while a stream pair runs, the ring's capacity is at
\* least 2 x buffer_size x channel_count, for the engine's current buffer
\* size and the input stream's channel count.
RingHoldsTwoBlocks ==
    (IsSome(engine.input_stream) /\ IsSome(engine.output_stream)) =>
        Unwrap(engine.input_stream).ring_capacity >=
            2 * get_buffer_size(engine) * Unwrap(engine.input_stream).channels

RECURSIVE GCD(_, _)
GCD(a, b) == IF b = 0 THEN a ELSE GCD(b, a % b)

\* The ratio to / from in lowest terms.
Ratio(to, from) == << to \div GCD(to, from), from \div GCD(to, from) >>

\* C25 (as claimed): the resampler of a running capture stream is the one
\* for the engine's current settings: its ratio is the current output rate
\* over the current input rate and its chunk size the current buffer size.
ResamplerMatchesSettings ==
    ( /\ IsSome(engine.input_stream)
      /\ IsSome(engine.input_config)
      /\ IsSome(engine.output_config) ) =>
        LET running == Unwrap(engine.input_stream)
        IN  /\ Ratio(running.resample_to, running.resample_from) =
                  Ratio(Unwrap(engine.output_config).sample_rate,
                        Unwrap(engine.input_config).sample_rate)
            /\ running.buffer_size = get_buffer_size(engine)

\* The first n frames of the first `channels` channels of a buffer, frame
\* after frame, each frame's channels in channel order.
RECURSIVE Interleaved(_, _, _, _)
Interleaved(buffer, n, channels, i) ==
    IF i >= n THEN <<>>
    ELSE [j \in 1..channels |-> buffer[j - 1][i]] \o Interleaved(buffer, n, channels, i + 1)

\* C26 (as claimed): for every capture block the samples handed to the ring
\* are exactly the frames the resampler produced for that block, each frame
\* once, its channels in channel order (none when the resampler produced
\* nothing).
PushesWhatResamplerProduced ==
    IsSome(last_block) =>
        Unwrap(last_block).offered =
            Interleaved(Unwrap(last_block).resampled,
                        IF IsSome(Unwrap(last_block).produced)
                        THEN Unwrap(Unwrap(last_block).produced) ELSE 0,
                        stream.channels, 0)

\* The positions of a call in the loader's list of calls.
CallsOf(c) == { k \in 1..Len(loader.calls) : loader.calls[k] = c }

\* What holds of the loader whatever the library: a Module that was
\* returned had its init entry called once, before anything else was called
\* in the library, and no Module is returned without that entry; the
\* teardown entry is only ever called after the init entry, at most once;
\* factory queries fall between the two and before the handle is released.
ModuleOrdering ==
    /\ loader.state \in {"live", "dropped", "panicked"} =>
            /\ "init" \in loader.lib.exports
            /\ Cardinality(CallsOf("init")) = 1
            /\ \A k \in CallsOf("factory") \cup CallsOf("exit") :
                    \A i \in CallsOf("init") : i < k
    /\ "init" \notin loader.lib.exports => loader.state \in {"none", "failed"}
    /\ Cardinality(CallsOf("exit")) <= 1
    /\ CallsOf("exit") # {} => CallsOf("init") # {}
    /\ \A k \in CallsOf("factory") :
            \A x \in CallsOf("exit") \cup CallsOf("close") : k < x

\* The drop of the Module ended with the teardown entry called once and the
\* handle released right after it.
TeardownThenRelease ==
    /\ Cardinality(CallsOf("exit")) = 1
    /\ Cardinality(CallsOf("close")) = 1
    /\ loader.calls[Len(loader.calls) - 1] = "exit"
    /\ loader.calls[Len(loader.calls)] = "close"
    /\ loader.handle = "closed"

\* C27 (as claimed): the loader's ordering holds, and every drop of a
\* Module calls the teardown entry once and only then releases the handle.
ModuleLifeCycleAnyLibrary ==
    /\ LoaderIdle \/ ModuleOrdering
    /\ (~LoaderIdle /\ loader.state \in {"dropped", "panicked"}) => TeardownThenRelease

\* C27 (amended): the loader's ordering holds, and the drop of a Module
\* whose library exports the teardown entry calls that entry once and only
\* then releases the handle; the drop of a Module whose library lacks that
\* entry calls nothing in the library and releases the handle, by a panic
\* on Windows and by skipping the call on macOS.
ModuleLifeCycle ==
    ~LoaderIdle =>
        /\ ModuleOrdering
        /\ (loader.state \in {"dropped", "panicked"} /\ "exit" \in loader.lib.exports)
                => (loader.state = "dropped" /\ TeardownThenRelease)
        /\ (loader.state \in {"dropped", "panicked"} /\ "exit" \notin loader.lib.exports)
                => /\ CallsOf("exit") = {}
                   /\ loader.calls[Len(loader.calls)] = "close"
                   /\ loader.handle = "closed"
                   /\ (loader.state = "panicked") = (loader.platform = "windows")

\* C27 witness: a Module was made, queried for its factory and dropped, and
\* the teardown entry was called.
ModuleDroppedAfterFactoryReached ==
    /\ ~LoaderIdle
    /\ loader.state = "dropped"
    /\ CallsOf("factory") # {}
    /\ CallsOf("exit") # {}

\* C28: after any writes and clones, as_ptr() of every handle of the buffer
\* is the pointer array made at construction, holding the same per-channel
\* pointers, each to its channel of the handle's samples; and a sample
\* written through one handle is read through every handle.
PointerArrayFixed ==
    ~ArraysIdle =>
        /\ \A h \in 1..Len(arrays.handles) :
              /\ as_ptr(arrays.handles[h]) = arrays.made_ptr
              /\ arrays.heap.references[as_ptr(arrays.handles[h])] = arrays.made_ptrs
              /\ \A j \in BufferChannels :
                    arrays.made_ptrs[j] = ChannelPtr(arrays.handles[h].data, j)
        /\ (arrays.last.op = "write" /\ arrays.last.r = "ok") =>
              \A h \in 1..Len(arrays.handles) :
                  read(arrays.heap, arrays.handles[h])[arrays.last.channel][arrays.last.idx]
                      = arrays.last.sample

\* C28 witness: a sample other than the initial one was written through a
\* clone while the first handle and another clone existed.
WriteThroughCloneReached ==
    /\ ~ArraysIdle
    /\ Len(arrays.handles) = MaxHandles
    /\ arrays.last.op = "write"
    /\ arrays.last.r = "ok"
    /\ arrays.last.handle > 1
    /\ arrays.last.sample # 0

\* The positions of the process calls in the block's trace.
ProcessSteps(t) == { p \in 1..Len(t) : t[p].ev = "process" }

RegistryLockDiscipline ==
    [][ /\ ~(sync'.writer /\ sync'.readers > 0)
        /\ (sync'.cap.pc = "chain") => (sync'.readers = 1)
        /\ (plugin_modules' # plugin_modules) => (sync.writer /\ sync'.writer)
        /\ (sync.writer /\ ~sync'.writer) =>
              \A id \in DOMAIN sync'.ctx :
                  /\ (sync'.ctx[id] = "registered") = (id \in DOMAIN plugin_modules')
                  /\ sync'.ctx[id] \in {"registered", "destroyed"}
        /\ (sync.cap.pc = "chain" /\ sync'.cap.pc = "chain"
            /\ sync'.cap.index > sync.cap.index) =>
              LET id == sync.cap.list[sync.cap.index]
              IN  /\ id \in DOMAIN plugin_modules
                  /\ sync.ctx[id] = "registered"
                  /\ ~sync.writer
      ]_vars

\* C30 witness: an unload or remove of a plug-in waits for the lock while
\* the capture thread, inside a block's chain, has that plug-in still to
\* process.
UnloadWaitsForBlockReached ==
    /\ ~SyncIdle
    /\ sync.cmd.pc = "acquire"
    /\ sync.cmd.op \in {"remove_plugin", "unload_plugin"}
    /\ sync.cap.pc = "chain"
    /\ \E k \in sync.cap.index..Len(sync.cap.list) : sync.cap.list[k] = sync.cmd.id

\* C31: every plug-in in the registry has its processing flag set, and so
\* has every plug-in of the list a capture block collected from the
\* registry, for as long as the block runs its chain.
RegisteredPluginsAreProcessing ==
    ~SyncIdle =>
        /\ \A id \in DOMAIN plugin_modules : plugin_modules[id].processing
        /\ \A k \in 1..Len(sync.cap.list) :
              /\ sync.cap.list[k] \in DOMAIN plugin_modules
              /\ plugin_modules[sync.cap.list[k]].processing

\* C31 witness: a capture block is about to call the one plug-in of its
\* chain while the command thread holds a further context, made and not yet
\* registered.
ChainDuringLoadReached ==
    /\ ~SyncIdle
    /\ sync.cap.pc = "chain"
    /\ Len(sync.cap.list) = 1
    /\ sync.cap.index = 1
    /\ sync.cmd.op = "load_plugin"
    /\ sync.cmd.pc = "acquire"

\* C32 (as claimed): whenever run() gets as far as starting a stream it
\* built (the capture stream plays from input_stream.play() on, lib.rs
\* 905), no stream of an earlier run() is stored in the engine any more: the
\* earlier pair was paused and released before.
RunStartsOnReleasedStreams ==
    [][ (last_op'.op = "run" /\ last_op'.name \in {"err_play_output", "ok"}
         /\ last_op'.r \in {"ok", "err"} /\ IsSome(engine.input_device)
         /\ IsSome(engine.output_device) /\ IsSome(engine.input_config)
         /\ IsSome(engine.output_config))
            => (engine.input_stream = None /\ engine.output_stream = None) ]_vars

\* C33 (as claimed): a select_input / select_output call returns "ok" or a
\* typed error, whatever the enumeration of the device's supported configs
\* gives, and leaves the engine mutex unpoisoned.
SelectReturnsTypedError ==
    last_op.op \in {"select_input", "select_output"} =>
        (last_op.r \in {"ok", "err"} /\ ~poisoned)

\* C34 (as claimed): the streams a successful run() started were built from
\* an input config and an output config asking for one and the same block
\* size, the size the ring, the resampler chunk and the process tick of
\* that run were made for.
RunUsesCommonBlockSize ==
    (last_op.op = "run" /\ last_op.r = "ok") =>
        LET capture == Unwrap(engine.input_stream)
            playback == Unwrap(engine.output_stream)
        IN  /\ capture.config.buffer_size = playback.config.buffer_size
            /\ capture.config.buffer_size = FixedBufferSize(capture.buffer_size)
            /\ capture.num_samples = capture.buffer_size

\* C35: a turn of the capture callback's push loop takes the next sample off
\* its list whether the ring took it or not, a sample offered to a full ring
\* being dropped with the ring left as it was; a turn of the playback
\* callback's loop writes one slot, the oldest value of the ring or 0 when
\* the ring is empty; and, each callback running on its thread, every
\* capture block comes to its end and every playback buffer is filled to
\* its last slot, whether or not the other side ever runs.
CallbacksNeverWait ==
    /\ [][ /\ (cap_pending # <<>> /\ cap_pending' # cap_pending) =>
                /\ cap_pending' = Tail(cap_pending)
                /\ (Len(ring.items) = ring.capacity) =>
                        (ring' = ring /\ Head(cap_pending) \in rejected')
                /\ (Len(ring.items) < ring.capacity) =>
                        ring'.items = Append(ring.items, Head(cap_pending))
           /\ (play_left' < play_left) =>
                /\ play_left' = play_left - 1
                /\ played' = Some(IF ring.items = <<>> THEN 0 ELSE Head(ring.items))
                /\ (ring.items = <<>>) => (ring' = ring)
         ]_vars
    /\ (cap_pending # <<>>) ~> (cap_pending = <<>>)
    /\ (play_left > 0) ~> (play_left = 0)

\* C35 witness: a capture block ended with samples dropped on the full ring
\* although nothing was ever popped from it, the playback slot written last
\* being the 0 of the empty ring.
BlockEndedOnFullRingReached ==
    /\ ring.capacity > 0
    /\ cap_pending = <<>>
    /\ rejected # {}
    /\ delivered = <<>>
    /\ played = Some(0)

\* The four selections of the engine.
Selection(e) == <<e.input_device, e.output_device, e.input_config, e.output_config>>

\* A select call during which every call into cpal succeeds.
SelectAllOk == [host_ok |-> TRUE, list_ok |-> TRUE, enum_ok |-> TRUE]

\* C36 (as claimed): a select_input / select_output call that fails only
\* because no device of the back-end has the given name leaves the two
\* devices and the two configs as they were.
UnknownDeviceKeepsSelection ==
    [][ /\ (/\ last_op'.op = "select_input"
            /\ last_op'.name \notin InputDeviceNames(engine.host)
            /\ last_op'.r = "err"
            /\ engine' = select_input(engine, last_op'.name, SelectAllOk).e)
                => Selection(engine') = Selection(engine)
        /\ (/\ last_op'.op = "select_output"
            /\ last_op'.name \notin OutputDeviceNames(engine.host)
            /\ last_op'.r = "err"
            /\ engine' = select_output(engine, last_op'.name, SelectAllOk).e)
                => Selection(engine') = Selection(engine) ]_vars

\* C37 (as claimed): in every state of the engine a config is stored only
\* for a side whose device is selected.
ConfigOnlyWithDevice ==
    /\ IsSome(engine.input_config) => IsSome(engine.input_device)
    /\ IsSome(engine.output_config) => IsSome(engine.output_device)

\* C38 (as claimed): a capture stream is only ever started with at most two
\* channels and, where its config fixes the block size, with a block of at
\* most MAX_BLOCK_SIZE frames, so that every write(j, i) of its callback
\* falls inside the 2 x MAX_BLOCK_SIZE planar buffers.
StreamsFitPlanarBuffers ==
    IsSome(engine.input_stream) =>
        LET capture == Unwrap(engine.input_stream)
        IN  /\ capture.channels <= 2
            /\ (capture.config.buffer_size.kind = "Fixed") =>
                    (capture.config.buffer_size.size <= MAX_BLOCK_SIZE)

\* C39 (as claimed): every call a window event makes on a plug-in's view,
\* removed() at the close of the window or on_size() from the resize
\* callback, is made while that plug-in is in the registry.
ViewCallsOnRegisteredPlugins ==
    (~EditorsIdle /\ IsSome(editors.last_event)) => Unwrap(editors.last_event).registered

====
